---- MODULE Spec2Model ----
(***************************************************************************)
(* A model of simple-redis: the RESP codec (resp/encode.rs,                *)
(* resp/decode.rs), the command layer (cmd/), the store (backend/) and the *)
(* per-connection loop (network.rs, main.rs).                              *)
(*                                                                         *)
(* Bytes are one-character strings; a buffer (BytesMut, &[u8], Vec<u8>) is *)
(* a sequence of bytes.  Indices into buffers are 0-based as in the source;*)
(* At(buf, i) reads buf[i].  A String is a sequence of bytes too: every    *)
(* byte of the alphabet is ASCII, on which String::from_utf8_lossy and     *)
(* String::from_utf8 change nothing.                                       *)
(***************************************************************************)
EXTENDS Integers, Sequences, FiniteSets, TLC

VARIABLES
    \* ---- codec harness: one BytesMut and the calls made on it
    pending,    \* bytes of the input that have not yet been appended to buf
    buf,        \* the BytesMut handed to the decoder
    call,       \* the last decoder call: its name, the buffer before, its result
    frame,      \* the frame whose encoding is the input
    \* ---- server: the store, the connections
    map,        \* BackendInner.map : key -> RespFrame (a function on the set keys)
    hmap,       \* BackendInner.hmap: key -> (field -> RespFrame)
    wire,       \* per connection: bytes sent by the client, not yet read
    eof,        \* per connection: the client has closed its socket
    rbuf,       \* per connection: the read buffer of Framed
    pc,         \* per connection: the position of stream_handler
    cur,        \* per connection: the frame (then the response) being handled
    out,        \* per connection: the response frames handed to the socket
    log,        \* per connection: history of decoded requests and their outcome
    sent,       \* number of requests the clients have sent so far
    ver         \* history: per key, number of SETs executed and the values they wrote

codecVars == <<pending, buf, call, frame>>
serverVars == <<map, hmap, wire, eof, rbuf, pc, cur, out, log, sent, ver>>
vars == <<pending, buf, call, frame, map, hmap, wire, eof, rbuf, pc, cur, out, log, sent, ver>>

-----------------------------------------------------------------------------
(* Bytes and slices                                                        *)

CR == "\r"
LF == "\n"
CRLF == <<CR, LF>>
CRLF_LEN == Len(CRLF)

At(b, i) == b[i + 1]
\* &b[from..to]
Slice(b, from, to) == SubSeq(b, from + 1, to)
\* &b[from..]
Drop(b, from) == SubSeq(b, from + 1, Len(b))
\* b.starts_with(p)
StartsWith(b, p) == Len(b) >= Len(p) /\ SubSeq(b, 1, Len(p)) = p

\* Result values.  A decoder working on a BytesMut also returns the buffer as
\* it leaves it.  A panic (out-of-range slice) is an outcome of its own.
Ok(v) == [tag |-> "Ok", v |-> v]
Err(e) == [tag |-> "Err", err |-> e]
Panic == [tag |-> "Panic"]
OkB(v, b) == [tag |-> "Ok", v |-> v, buf |-> b]
ErrB(e, b) == [tag |-> "Err", err |-> e, buf |-> b]
PanicB(b) == [tag |-> "Panic", buf |-> b]
\* the ? operator: a failed Result of a read-only helper, returned by a decoder
Lift(r, b) == IF r.tag = "Err" THEN ErrB(r.err, b) ELSE PanicB(b)

NotComplete == [kind |-> "NotComplete"]
InvalidFrameType == [kind |-> "InvalidFrameType"]
InvalidFrameLength(n) == [kind |-> "InvalidFrameLength", n |-> n]
ParseIntError == [kind |-> "ParseIntError"]
ParseFloatError == [kind |-> "ParseFloatError"]

Some(v) == [some |-> TRUE, v |-> v]
None == [some |-> FALSE]

-----------------------------------------------------------------------------
(* Numbers as text: format!("{}", n) and str::parse                        *)

DigitChars == <<"0", "1", "2", "3", "4", "5", "6", "7", "8", "9">>
IsDigit(c) == \E d \in 1..10 : DigitChars[d] = c
DigitVal(c) == (CHOOSE d \in 1..10 : DigitChars[d] = c) - 1

RECURSIVE fmt_usize(_)
fmt_usize(n) == IF n < 10 THEN <<DigitChars[n + 1]>>
                ELSE fmt_usize(n \div 10) \o <<DigitChars[(n % 10) + 1]>>

\* format!("{}", n) for a signed integer
fmt_i64(n) == IF n < 0 THEN <<"-">> \o fmt_usize(0 - n) ELSE fmt_usize(n)

RECURSIVE digits_value(_, _)
digits_value(s, acc) == IF s = <<>> THEN acc
                        ELSE digits_value(Tail(s), acc * 10 + DigitVal(Head(s)))

AllDigits(s) == \A i \in 1..Len(s) : IsDigit(s[i])

\* str::parse::<usize>: an optional '+', then at least one digit; no '-'
parse_usize(s) ==
    LET d == IF s # <<>> /\ Head(s) = "+" THEN Tail(s) ELSE s
    IN  IF d # <<>> /\ AllDigits(d) THEN Ok(digits_value(d, 0)) ELSE Err(ParseIntError)

\* An i64 of the model is IntWidth bits wide: the range is scaled down so that
\* its ends can be computed with; the rules are those of the 64-bit type.
IntWidth == 16
I64_MAX == 2 ^ (IntWidth - 1) - 1
I64_MIN == 0 - 2 ^ (IntWidth - 1)

\* the mutation of str::parse::<i64> that parses the magnitude as a positive
\* i64 and negates it afterwards
parse_i64_magnitude(s) ==
    LET signed == s # <<>> /\ Head(s) \in {"+", "-"}
        d == IF signed THEN Tail(s) ELSE s
    IN  IF d # <<>> /\ AllDigits(d)
        THEN LET v == digits_value(d, 0)
             IN  IF v > I64_MAX THEN Err(ParseIntError)
                 ELSE Ok(IF signed /\ Head(s) = "-" THEN 0 - v ELSE v)
        ELSE Err(ParseIntError)
\* str::parse::<i64>: an optional '+' or '-', then at least one digit; the
\* digits are accumulated with checked arithmetic, downwards after a '-', so
\* a value outside the range of the type is an error and I64_MIN is not
parse_i64(s) ==
    LET signed == s # <<>> /\ Head(s) \in {"+", "-"}
        d == IF signed THEN Tail(s) ELSE s
    IN  IF d # <<>> /\ AllDigits(d)
        THEN LET v == IF signed /\ Head(s) = "-" THEN 0 - digits_value(d, 0)
                      ELSE digits_value(d, 0)
             IN  IF v < I64_MIN \/ v > I64_MAX THEN Err(ParseIntError) ELSE Ok(v)
        ELSE Err(ParseIntError)

\* An f64 of the model is a number of tenths: d stands for d/10.  Display
\* prints an integral value without a fraction ("2"), another one as "1.5".
fmt_f64(d) ==
    LET a == IF d < 0 THEN 0 - d ELSE d
        body == IF a % 10 = 0 THEN fmt_usize(a \div 10)
                ELSE fmt_usize(a \div 10) \o <<".">> \o fmt_usize(a % 10)
    IN  IF d < 0 THEN <<"-">> \o body ELSE body

\* str::parse::<f64> on the texts the model handles: [+|-] digits [. digit] [e0]
parse_f64(s) ==
    LET signed == s # <<>> /\ Head(s) \in {"+", "-"}
        neg == signed /\ Head(s) = "-"
        u == IF signed THEN Tail(s) ELSE s
        m == IF Len(u) >= 2 /\ SubSeq(u, Len(u) - 1, Len(u)) = <<"e", "0">>
             THEN SubSeq(u, 1, Len(u) - 2) ELSE u
        dot == {i \in 1..Len(m) : m[i] = "."}
        ip == IF dot = {} THEN m ELSE SubSeq(m, 1, (CHOOSE i \in dot : TRUE) - 1)
        fp == IF dot = {} THEN <<"0">> ELSE SubSeq(m, (CHOOSE i \in dot : TRUE) + 1, Len(m))
        okc == Cardinality(dot) <= 1 /\ ip # <<>> /\ AllDigits(ip) /\ Len(fp) = 1 /\ AllDigits(fp)
        val == digits_value(ip, 0) * 10 + digits_value(fp, 0)
    IN  IF okc THEN Ok(IF neg THEN 0 - val ELSE val) ELSE Err(ParseFloatError)

-----------------------------------------------------------------------------
(* Byte order and letter case                                              *)

\* the bytes of the model in ascending ASCII order
Alphabet == << "\n", "\r", "#", "$", "%", "*", "+", ",", "-", ".",
               "0", "1", "2", "3", "4", "5", "6", "7", "8", "9", ":",
               "A", "B", "C", "D", "E", "F", "G", "H", "I", "J", "K", "L", "M",
               "N", "O", "P", "Q", "R", "S", "T", "U", "V", "W", "X", "Y", "Z", "_",
               "a", "b", "c", "d", "e", "f", "g", "h", "i", "j", "k", "l", "m",
               "n", "o", "p", "q", "r", "s", "t", "u", "v", "w", "x", "y", "z", "~" >>
Ord(c) == CHOOSE i \in 1..Len(Alphabet) : Alphabet[i] = c

\* String's Ord: lexicographic on the bytes
RECURSIVE str_less(_, _)
str_less(a, b) ==
    IF b = <<>> THEN FALSE
    ELSE IF a = <<>> THEN TRUE
    ELSE IF Head(a) = Head(b) THEN str_less(Tail(a), Tail(b))
    ELSE Ord(Head(a)) < Ord(Head(b))

\* u8::to_ascii_lowercase: 'A'..'Z' to 'a'..'z', every other byte unchanged
byte_to_ascii_lowercase(c) ==
    IF Ord(c) >= Ord("A") /\ Ord(c) <= Ord("Z") THEN Alphabet[Ord(c) + (Ord("a") - Ord("A"))] ELSE c
to_ascii_lowercase(s) == [i \in 1..Len(s) |-> byte_to_ascii_lowercase(s[i])]

-----------------------------------------------------------------------------
(* Frames (resp/mod.rs): a RespFrame is the tuple of its variant name and  *)
(* its payload; Variant(f) and Payload(f) read them.                       *)

Variant(f) == f[1]
Payload(f) == f[2]

SimpleString(s) == <<"SimpleString", s>>
SimpleError(s) == <<"Error", s>>
Integer(n) == <<"Integer", n>>
BulkString(b) == <<"BulkString", b>>
RespNullBulkString == <<"NullBulkString">>
RespArray(xs) == <<"Array", xs>>
RespNullArray == <<"NullArray">>
RespNull == <<"Null">>
Boolean(b) == <<"Boolean", b>>
Double(d) == <<"Double", d>>
\* a RespMap is a BTreeMap: the sequence of its <<key, value>> entries in
\* strictly ascending key order
RespMap(es) == <<"Map", es>>
RespSet(xs) == <<"Set", xs>>

\* the mutation of BTreeMap::insert that keeps the entries in the order of
\* their first insertion
RECURSIVE btree_insert_back(_, _, _)
btree_insert_back(es, k, v) ==
    IF es = <<>> THEN << <<k, v>> >>
    ELSE IF Head(es)[1] = k THEN << <<k, v>> >> \o Tail(es)
    ELSE <<Head(es)>> \o btree_insert_back(Tail(es), k, v)
\* BTreeMap::insert: replaces the value of an equal key, else inserts in order
RECURSIVE btree_insert(_, _, _)
btree_insert(es, k, v) ==
    IF es = <<>> THEN << <<k, v>> >>
    ELSE IF Head(es)[1] = k THEN << <<k, v>> >> \o Tail(es)
    ELSE IF str_less(k, Head(es)[1]) THEN << <<k, v>> >> \o es
    ELSE <<Head(es)>> \o btree_insert(Tail(es), k, v)

-----------------------------------------------------------------------------
(* Encoder (resp/encode.rs)                                                *)

SimpleString_encode(s) == <<"+">> \o s \o CRLF
SimpleError_encode(s) == <<"-">> \o s \o CRLF
i64_encode(n) == <<":">> \o (IF n < 0 THEN <<>> ELSE <<"+">>) \o fmt_i64(n) \o CRLF
BulkString_encode(b) == <<"$">> \o fmt_usize(Len(b)) \o CRLF \o b \o CRLF
RespNullBulkString_encode == <<"$", "-", "1">> \o CRLF
RespNullArray_encode == <<"*", "-", "1">> \o CRLF
RespNull_encode == <<"_">> \o CRLF
bool_encode(b) == <<"#", IF b THEN "t" ELSE "f">> \o CRLF
\* self.abs() > 1e8 || self.abs() < 1e-8 holds of 0.0 only, among the doubles of
\* the model (tenths up to 1e8): "{:+e}" prints it as +0e0
f64_encode(d) ==
    IF d = 0 THEN <<",", "+", "0", "e", "0">> \o CRLF
    ELSE <<",">> \o (IF d < 0 THEN <<>> ELSE <<"+">>) \o fmt_f64(d) \o CRLF

RECURSIVE encode(_)
RECURSIVE encode_all(_)
RECURSIVE encode_entries(_)
\* for frame in self.0 { buf.extend_from_slice(&frame.encode()) }
encode_all(xs) == IF xs = <<>> THEN <<>> ELSE encode(Head(xs)) \o encode_all(Tail(xs))
\* for (key, value) in self.0 { SimpleString::new(key).encode(); value.encode() }
encode_entries(es) ==
    IF es = <<>> THEN <<>>
    ELSE SimpleString_encode(Head(es)[1]) \o encode(Head(es)[2]) \o encode_entries(Tail(es))
RespArray_encode(xs) == <<"*">> \o fmt_usize(Len(xs)) \o CRLF \o encode_all(xs)
RespSet_encode(xs) == <<"~">> \o fmt_usize(Len(xs)) \o CRLF \o encode_all(xs)
RespMap_encode(es) == <<"%">> \o fmt_usize(Len(es)) \o CRLF \o encode_entries(es)
encode(f) ==
    CASE Variant(f) = "SimpleString" -> SimpleString_encode(Payload(f))
      [] Variant(f) = "Error" -> SimpleError_encode(Payload(f))
      [] Variant(f) = "Integer" -> i64_encode(Payload(f))
      [] Variant(f) = "BulkString" -> BulkString_encode(Payload(f))
      [] Variant(f) = "NullBulkString" -> RespNullBulkString_encode
      [] Variant(f) = "Array" -> RespArray_encode(Payload(f))
      [] Variant(f) = "NullArray" -> RespNullArray_encode
      [] Variant(f) = "Null" -> RespNull_encode
      [] Variant(f) = "Boolean" -> bool_encode(Payload(f))
      [] Variant(f) = "Double" -> f64_encode(Payload(f))
      [] Variant(f) = "Map" -> RespMap_encode(Payload(f))
      [] Variant(f) = "Set" -> RespSet_encode(Payload(f))

-----------------------------------------------------------------------------
(* Decoder (resp/decode.rs): the helpers                                   *)

\* for i in 1..buf.len() - 1: the index of the '\r' of the nth "\r\n" that
\* starts at an index >= 1
find_crlf(b, nth) ==
    LET hits == {i \in 1..(Len(b) - 2) : At(b, i) = CR /\ At(b, i + 1) = LF}
    IN  IF Cardinality(hits) < nth THEN None
        ELSE Some(CHOOSE i \in hits : Cardinality({j \in hits : j < i}) = nth - 1)

extract_simple_frame_data(b, prefix) ==
    IF Len(b) < 3 THEN Err(NotComplete)
    ELSE IF ~StartsWith(b, prefix) THEN Err(InvalidFrameType)
    ELSE LET end == find_crlf(b, 1)
         IN  IF end.some THEN Ok(end.v) ELSE Err(NotComplete)

\* Ok(<<end, len>>)
parse_length(b, prefix) ==
    LET end == extract_simple_frame_data(b, prefix)
    IN  IF end.tag # "Ok" THEN end
        ELSE LET n == parse_usize(Slice(b, Len(prefix), end.v))
             IN  IF n.tag # "Ok" THEN n ELSE Ok(<<end.v, n.v>>)

\* advances the buffer past expect on success only
extract_fixed_data(b, expect) ==
    IF Len(b) < Len(expect) THEN ErrB(NotComplete, b)
    ELSE IF ~StartsWith(b, expect) THEN ErrB(InvalidFrameType, b)
    ELSE OkB(TRUE, Drop(b, Len(expect)))

-----------------------------------------------------------------------------
(* Decoder: expect_length                                                  *)

SimpleString_expect_length(b) ==
    LET end == extract_simple_frame_data(b, <<"+">>)
    IN  IF end.tag # "Ok" THEN end ELSE Ok(end.v + CRLF_LEN)
SimpleError_expect_length(b) ==
    LET end == extract_simple_frame_data(b, <<"-">>)
    IN  IF end.tag # "Ok" THEN end ELSE Ok(end.v + CRLF_LEN)
i64_expect_length(b) ==
    LET end == extract_simple_frame_data(b, <<":">>)
    IN  IF end.tag # "Ok" THEN end ELSE Ok(end.v + CRLF_LEN)
f64_expect_length(b) ==
    LET end == extract_simple_frame_data(b, <<",">>)
    IN  IF end.tag # "Ok" THEN end ELSE Ok(end.v + CRLF_LEN)
RespNull_expect_length(b) == Ok(3)
RespNullArray_expect_length(b) == Ok(4)
RespNullBulkString_expect_length(b) == Ok(5)
bool_expect_length(b) == Ok(4)
BulkString_expect_length(b) ==
    LET r == parse_length(b, <<"$">>)
    IN  IF r.tag # "Ok" THEN r ELSE Ok(r.v[1] + CRLF_LEN + r.v[2] + CRLF_LEN)

RECURSIVE RespFrame_expect_length(_)
RECURSIVE calc_elements(_, _, _)
RECURSIVE calc_element(_, _, _, _)
RECURSIVE calc_entries(_, _, _)
RECURSIVE calc_entry_key(_, _, _, _)
RECURSIVE calc_entry_value(_, _, _, _)

\* The "*" | "~" loop of calc_total_length: n elements left, starting at data.
\* data = &data[len..] panics when len exceeds data.len().
calc_elements(data, n, total) ==
    IF n = 0 THEN Ok(total) ELSE calc_element(RespFrame_expect_length(data), data, n, total)
\* one turn of the loop, r being the element's expect_length
calc_element(r, data, n, total) ==
    IF r.tag # "Ok" THEN r
    ELSE IF r.v > Len(data) THEN Panic
    ELSE calc_elements(Drop(data, r.v), n - 1, total + r.v)

\* The "%" loop of calc_total_length: a SimpleString key, then a value
calc_entries(data, n, total) ==
    IF n = 0 THEN Ok(total) ELSE calc_entry_key(SimpleString_expect_length(data), data, n, total)
\* one turn of the loop: k is the key's expect_length, then r the value's
calc_entry_key(k, data, n, total) ==
    IF k.tag # "Ok" THEN k
    ELSE IF k.v > Len(data) THEN Panic
    ELSE calc_entry_value(RespFrame_expect_length(Drop(data, k.v)), Drop(data, k.v), n, total + k.v)
calc_entry_value(r, data, n, total) ==
    IF r.tag # "Ok" THEN r
    ELSE IF r.v > Len(data) THEN Panic
    ELSE calc_entries(Drop(data, r.v), n - 1, total + r.v)

calc_total_length(b, end, len, prefix) ==
    LET total == end + CRLF_LEN
        data == Drop(b, total)
    IN  CASE prefix \in {<<"*">>, <<"~">>} -> calc_elements(data, len, total)
          [] prefix = <<"%">> -> calc_entries(data, len, total)
          [] OTHER -> Ok(len + CRLF_LEN)

\* let (end, len) = parse_length(buf, PREFIX)?; calc_total_length(buf, end, len, PREFIX)
aggregate_expect_length(r, b, prefix) ==
    IF r.tag # "Ok" THEN r ELSE calc_total_length(b, r.v[1], r.v[2], prefix)
RespArray_expect_length(b) == aggregate_expect_length(parse_length(b, <<"*">>), b, <<"*">>)
RespSet_expect_length(b) == aggregate_expect_length(parse_length(b, <<"~">>), b, <<"~">>)
RespMap_expect_length(b) == aggregate_expect_length(parse_length(b, <<"%">>), b, <<"%">>)

RespFrame_expect_length(b) ==
    IF b = <<>> THEN Err(NotComplete)
    ELSE CASE Head(b) = "*" -> RespArray_expect_length(b)
           [] Head(b) = "~" -> RespSet_expect_length(b)
           [] Head(b) = "%" -> RespMap_expect_length(b)
           [] Head(b) = "$" -> BulkString_expect_length(b)
           [] Head(b) = ":" -> i64_expect_length(b)
           [] Head(b) = "+" -> SimpleString_expect_length(b)
           [] Head(b) = "-" -> SimpleError_expect_length(b)
           [] Head(b) = "#" -> bool_expect_length(b)
           [] Head(b) = "," -> f64_expect_length(b)
           [] Head(b) = "_" -> RespNull_expect_length(b)
           [] OTHER -> Err(NotComplete)

-----------------------------------------------------------------------------
(* Decoder: decode.  Each returns the buffer as the call leaves it.        *)

\* buf.split_to(end + CRLF_LEN) consumes the line; the text is data[1..end]
SimpleString_decode(b) ==
    LET end == extract_simple_frame_data(b, <<"+">>)
    IN  IF end.tag # "Ok" THEN Lift(end, b)
        ELSE OkB(SimpleString(Slice(b, 1, end.v)), Drop(b, end.v + CRLF_LEN))

SimpleError_decode(b) ==
    LET end == extract_simple_frame_data(b, <<"-">>)
    IN  IF end.tag # "Ok" THEN Lift(end, b)
        ELSE OkB(SimpleError(Slice(b, 1, end.v)), Drop(b, end.v + CRLF_LEN))

\* the line is split off the buffer before s.parse()? runs
i64_decode(b) ==
    LET end == extract_simple_frame_data(b, <<":">>)
    IN  IF end.tag # "Ok" THEN Lift(end, b)
        ELSE LET rest == Drop(b, end.v + CRLF_LEN)
                 n == parse_i64(Slice(b, 1, end.v))
             IN  IF n.tag # "Ok" THEN Lift(n, rest) ELSE OkB(Integer(n.v), rest)

f64_decode(b) ==
    LET end == extract_simple_frame_data(b, <<",">>)
    IN  IF end.tag # "Ok" THEN Lift(end, b)
        ELSE LET rest == Drop(b, end.v + CRLF_LEN)
                 n == parse_f64(Slice(b, 1, end.v))
             IN  IF n.tag # "Ok" THEN Lift(n, rest) ELSE OkB(Double(n.v), rest)

\* extract_fixed_data has advanced the buffer when the emptiness check fails
RespNull_decode(b) ==
    LET r == extract_fixed_data(b, <<"_">> \o CRLF)
    IN  IF r.tag # "Ok" THEN r
        ELSE IF r.buf # <<>> THEN ErrB(InvalidFrameLength(Len(r.buf)), r.buf)
        ELSE OkB(RespNull, r.buf)

\* the decoder without its emptiness check: trailing bytes are left in place
RespNullArray_decode_lenient(b) ==
    LET r == extract_fixed_data(b, <<"*", "-", "1">> \o CRLF)
    IN  IF r.tag # "Ok" THEN r ELSE OkB(RespNullArray, r.buf)

RespNullArray_decode(b) ==
    LET r == extract_fixed_data(b, <<"*", "-", "1">> \o CRLF)
    IN  IF r.tag # "Ok" THEN r
        ELSE IF r.buf # <<>> THEN ErrB(InvalidFrameLength(Len(r.buf)), r.buf)
        ELSE OkB(RespNullArray, r.buf)

RespNullBulkString_decode(b) ==
    LET r == extract_fixed_data(b, <<"$", "-", "1">> \o CRLF)
    IN  IF r.tag # "Ok" THEN r
        ELSE IF r.buf # <<>> THEN ErrB(InvalidFrameLength(Len(r.buf)), r.buf)
        ELSE OkB(RespNullBulkString, r.buf)

bool_decode(b) ==
    LET t == extract_fixed_data(b, <<"#", "t">> \o CRLF)
    IN  IF t.tag = "Ok" THEN OkB(Boolean(TRUE), t.buf)
        ELSE IF t.err = NotComplete THEN t
        ELSE LET f == extract_fixed_data(b, <<"#", "f">> \o CRLF)
             IN  IF f.tag = "Ok" THEN OkB(Boolean(FALSE), f.buf) ELSE f

\* the mutation of BulkString::decode that ends the payload at the first
\* "\r\n" after the header
BulkString_decode_scan(b) ==
    LET r == parse_length(b, <<"$">>)
    IN  IF r.tag # "Ok" THEN Lift(r, b)
        ELSE LET end == r.v[1]
                 stop == find_crlf(b, 2)
             IN  IF ~stop.some THEN ErrB(NotComplete, b)
                 ELSE OkB(BulkString(Slice(b, end + CRLF_LEN, stop.v)),
                          Drop(b, stop.v + CRLF_LEN))
\* the payload is the len bytes after the header; the two bytes after it are
\* split off unexamined
BulkString_decode(b) ==
    LET r == parse_length(b, <<"$">>)
    IN  IF r.tag # "Ok" THEN Lift(r, b)
        ELSE LET end == r.v[1]
                 len == r.v[2]
                 remained == Drop(b, end + CRLF_LEN)
             IN  IF Len(remained) < len + CRLF_LEN THEN ErrB(NotComplete, b)
                 ELSE OkB(BulkString(SubSeq(remained, 1, len)), Drop(remained, len + CRLF_LEN))

RECURSIVE RespFrame_decode(_)
RECURSIVE RespArray_decode(_)
RECURSIVE decode_elements(_, _, _)
RECURSIVE decode_element(_, _, _)
RECURSIVE decode_entries(_, _, _)
RECURSIVE decode_entry_key(_, _, _)
RECURSIVE decode_entry_value(_, _, _, _)

\* for _ in 0..len { frames.push(RespFrame::decode(buf)?) }
decode_elements(b, n, acc) ==
    IF n = 0 THEN OkB(acc, b) ELSE decode_element(RespFrame_decode(b), n, acc)
\* one turn of the loop, r being what RespFrame::decode returned
decode_element(r, n, acc) ==
    IF r.tag # "Ok" THEN r ELSE decode_elements(r.buf, n - 1, Append(acc, r.v))

\* for _ in 0..len { key = SimpleString::decode(buf)?; value = RespFrame::decode(buf)?;
\*                   frames.insert(key.0, value) }
decode_entries(b, n, acc) ==
    IF n = 0 THEN OkB(acc, b) ELSE decode_entry_key(SimpleString_decode(b), n, acc)
\* one turn of the loop: k is the decoded key, then r the decoded value
decode_entry_key(k, n, acc) ==
    IF k.tag # "Ok" THEN k ELSE decode_entry_value(RespFrame_decode(k.buf), Payload(k.v), n, acc)
decode_entry_value(r, key, n, acc) ==
    IF r.tag # "Ok" THEN r ELSE decode_entries(r.buf, n - 1, btree_insert(acc, key, r.v))

\* the steps of RespArray::decode, RespSet::decode and RespMap::decode after
\* parse_length returned r: the pre-flight length, the check that the buffer
\* holds that many bytes, buf.advance(end + CRLF_LEN), the loop
aggregate_body(total_len, r, b, prefix) ==
    IF total_len.tag # "Ok" THEN Lift(total_len, b)
    ELSE IF Len(b) < total_len.v THEN ErrB(NotComplete, b)
    ELSE IF prefix = <<"%">> THEN decode_entries(Drop(b, r.v[1] + CRLF_LEN), r.v[2], <<>>)
    ELSE decode_elements(Drop(b, r.v[1] + CRLF_LEN), r.v[2], <<>>)
aggregate_decode(r, b, prefix) ==
    IF r.tag # "Ok" THEN Lift(r, b)
    ELSE aggregate_body(calc_total_length(b, r.v[1], r.v[2], prefix), r, b, prefix)
\* Ok(RespArray::new(frames)) and its like
wrap(fs, variant) == IF fs.tag # "Ok" THEN fs ELSE OkB(<<variant, fs.v>>, fs.buf)

RespArray_decode(b) == wrap(aggregate_decode(parse_length(b, <<"*">>), b, <<"*">>), "Array")
RespSet_decode(b) == wrap(aggregate_decode(parse_length(b, <<"~">>), b, <<"~">>), "Set")
RespMap_decode(b) == wrap(aggregate_decode(parse_length(b, <<"%">>), b, <<"%">>), "Map")

\* '$' and '*' try the null marker first: NotComplete is returned, any other
\* failure falls through to the length-prefixed variant on the buffer as the
\* failed attempt left it
bulk_or_null(n) ==
    IF n.tag = "Ok" THEN n ELSE IF n.err = NotComplete THEN n ELSE BulkString_decode(n.buf)
array_or_null(n) ==
    IF n.tag = "Ok" THEN n ELSE IF n.err = NotComplete THEN n ELSE RespArray_decode(n.buf)
\* the mutation of RespFrame::decode that takes a first byte of no variant
\* for a frame not yet complete
RespFrame_decode_wait(b) ==
    IF b = <<>> THEN ErrB(NotComplete, b)
    ELSE CASE Head(b) = "+" -> SimpleString_decode(b)
           [] Head(b) = "-" -> SimpleError_decode(b)
           [] Head(b) = ":" -> i64_decode(b)
           [] Head(b) = "$" -> bulk_or_null(RespNullBulkString_decode(b))
           [] Head(b) = "*" -> array_or_null(RespNullArray_decode(b))
           [] Head(b) = "_" -> RespNull_decode(b)
           [] Head(b) = "#" -> bool_decode(b)
           [] Head(b) = "," -> f64_decode(b)
           [] Head(b) = "%" -> RespMap_decode(b)
           [] Head(b) = "~" -> RespSet_decode(b)
           [] OTHER -> ErrB(NotComplete, b)
\* RespFrame::decode: the variant is chosen by the first byte of the buffer
RespFrame_decode(b) ==
    IF b = <<>> THEN ErrB(NotComplete, b)
    ELSE CASE Head(b) = "+" -> SimpleString_decode(b)
           [] Head(b) = "-" -> SimpleError_decode(b)
           [] Head(b) = ":" -> i64_decode(b)
           [] Head(b) = "$" -> bulk_or_null(RespNullBulkString_decode(b))
           [] Head(b) = "*" -> array_or_null(RespNullArray_decode(b))
           [] Head(b) = "_" -> RespNull_decode(b)
           [] Head(b) = "#" -> bool_decode(b)
           [] Head(b) = "," -> f64_decode(b)
           [] Head(b) = "%" -> RespMap_decode(b)
           [] Head(b) = "~" -> RespSet_decode(b)
           [] OTHER -> ErrB(InvalidFrameType, b)

-----------------------------------------------------------------------------
(* The frames and inputs of the codec harness                              *)

\* aggregates of the harness hold at most MaxChildren elements (entries)
MaxChildren == 2

LeafFrames ==
    { SimpleString(<<>>), SimpleString(<<"O", "K">>), SimpleError(<<"E">>),
      Integer(0), Integer(0 - 1), Integer(12),
      BulkString(<<>>), BulkString(<<"a">>), BulkString(<<CR, LF>>),
      RespNullBulkString, RespNullArray, RespNull,
      Boolean(TRUE), Boolean(FALSE), Double(0), Double(15), Double(0 - 15) }

ChildFrames ==
    { BulkString(<<"a">>), Boolean(TRUE), Integer(1),
      RespNull, RespNullBulkString, RespNullArray }

MapKeys == { <<"a">>, <<"b">> }

\* the sequences of length at most n over S
RECURSIVE SeqsUpTo(_, _)
SeqsUpTo(S, n) ==
    IF n = 0 THEN { <<>> }
    ELSE LET shorter == SeqsUpTo(S, n - 1)
         IN  shorter \cup { Append(q, x) : q \in shorter, x \in S }

\* the BTreeMaps of at most n entries: built by insertion, so sorted by key
RECURSIVE MapsUpTo(_)
MapsUpTo(n) ==
    IF n = 0 THEN { <<>> }
    ELSE LET smaller == MapsUpTo(n - 1)
         IN  smaller \cup { btree_insert(m, k, x) : m \in smaller, k \in MapKeys, x \in ChildFrames }

FlatAggregates ==
    { RespArray(q) : q \in SeqsUpTo(ChildFrames, MaxChildren) }
    \cup { RespSet(q) : q \in SeqsUpTo(ChildFrames, MaxChildren) }
    \cup { RespMap(m) : m \in MapsUpTo(MaxChildren) }

\* aggregates nested in aggregates, the inner one first or last
NestedAggregates ==
    { RespArray(<<a>>) : a \in FlatAggregates }
    \cup { RespSet(<<a, Boolean(FALSE)>>) : a \in FlatAggregates }
    \cup { RespMap(<< <<<<"k">>, a>> >>) : a \in FlatAggregates }

\* bulk strings whose payload holds CR, LF or CRLF, alone and as the child of
\* an Array, a Set and a Map
BinaryPayloads ==
    { <<CR>>, <<LF>>, <<CR, LF>>, <<LF, CR>>, <<"a", CR, LF, "b">>, <<CR, LF, CR, LF>> }
BinaryFrames ==
    { BulkString(p) : p \in BinaryPayloads }
    \cup { RespArray(<<BulkString(p), Integer(1)>>) : p \in BinaryPayloads }
    \cup { RespSet(<<Boolean(TRUE), BulkString(p)>>) : p \in BinaryPayloads }
    \cup { RespMap(<< <<<<"k">>, BulkString(p)>> >>) : p \in BinaryPayloads }

\* Integers at the ends of the range, around zero and of several digits
IntegerFrames ==
    { Integer(n) : n \in { I64_MIN, I64_MIN + 1, 0 - 10, 0 - 9, 0, 9, 10, 100, I64_MAX - 1, I64_MAX } }

Frames == LeafFrames \cup FlatAggregates \cup NestedAggregates \cup BinaryFrames
          \cup IntegerFrames

\* bytes that follow the encoding in the input: nothing, two stray bytes, a
\* frame, an Integer written without a sign
Unsigned7 == <<":", "7", CR, LF>>
Trailers == { <<>>, <<"k", "k">>, <<":", "+", "1", CR, LF>>, Unsigned7 }

-----------------------------------------------------------------------------
(* The codec harness: a test program that owns one BytesMut, appends the   *)
(* input to it byte by byte and calls the decoders on it.                  *)

NoCall == [op |-> "none"]
\* what a call returned, without the buffer
Returned(r) == IF r.tag = "Ok" THEN Ok(r.v) ELSE IF r.tag = "Err" THEN Err(r.err) ELSE Panic
Called(op, r) == [op |-> op, pre |-> buf, res |-> Returned(r)]

ServerIdle ==
    /\ map = <<>> /\ hmap = <<>> /\ wire = <<>> /\ eof = <<>> /\ rbuf = <<>>
    /\ pc = <<>> /\ cur = <<>> /\ out = <<>> /\ log = <<>> /\ sent = 0 /\ ver = <<>>

CodecInit ==
    /\ frame \in Frames
    /\ \E t \in Trailers : pending = encode(frame) \o t
    /\ buf = <<>>
    /\ call = NoCall
    /\ ServerIdle

\* a panic ends the program that owns the buffer
Alive == IF call.op = "none" THEN TRUE ELSE call.res.tag # "Panic"

\* buf.extend_from_slice / put_u8: the next byte of the input arrives
Feed ==
    /\ Alive
    /\ pending # <<>>
    /\ buf' = Append(buf, Head(pending))
    /\ pending' = Tail(pending)
    /\ call' = NoCall
    /\ UNCHANGED <<frame, serverVars>>

Decode ==
    /\ Alive
    /\ LET r == RespFrame_decode(buf)
       IN  buf' = r.buf /\ call' = Called("RespFrame", r)
    /\ UNCHANGED <<pending, frame, serverVars>>

DecodeNull ==
    /\ Alive
    /\ LET r == RespNull_decode(buf)
       IN  buf' = r.buf /\ call' = Called("RespNull", r)
    /\ UNCHANGED <<pending, frame, serverVars>>

DecodeNullArray ==
    /\ Alive
    /\ LET r == RespNullArray_decode(buf)
       IN  buf' = r.buf /\ call' = Called("RespNullArray", r)
    /\ UNCHANGED <<pending, frame, serverVars>>

DecodeNullBulkString ==
    /\ Alive
    /\ LET r == RespNullBulkString_decode(buf)
       IN  buf' = r.buf /\ call' = Called("RespNullBulkString", r)
    /\ UNCHANGED <<pending, frame, serverVars>>

\* RespFrame::expect_length(&buf): it borrows the buffer and cannot change it
ExpectLength ==
    /\ Alive
    /\ call' = Called("expect_length", RespFrame_expect_length(buf))
    /\ UNCHANGED <<pending, buf, frame, serverVars>>

CodecNext ==
    Feed \/ Decode \/ DecodeNull \/ DecodeNullArray \/ DecodeNullBulkString \/ ExpectLength

CodecSpec == CodecInit /\ [][CodecNext]_vars

-----------------------------------------------------------------------------
(* Claims about the codec, checked under CodecSpec                         *)

Input == encode(frame)
IsProperPrefix(p, e) == Len(p) < Len(e) /\ SubSeq(e, 1, Len(p)) = p
DecodeCalled == call.op = "RespFrame"
ReturnedNotComplete == call.res.tag = "Err" /\ call.res.err = NotComplete
ReturnedFrame(f) == call.res.tag = "Ok" /\ call.res.v = f

\* C1: RespFrame::decode on a proper prefix of a valid encoding returns
\* NotComplete and leaves the buffer unchanged; on the whole encoding it
\* returns the frame.
C1_PrefixAtomicity ==
    DecodeCalled =>
        /\ IsProperPrefix(call.pre, Input) => (ReturnedNotComplete /\ buf = call.pre)
        /\ call.pre = Input => ReturnedFrame(frame)

\* C2: RespFrame::decode on a buffer holding exactly encode(F) returns F and
\* leaves the buffer empty.
C2_RoundTrip ==
    (DecodeCalled /\ call.pre = Input) => (ReturnedFrame(frame) /\ buf = <<>>)

\* C3: RespFrame::decode on an encoding followed by trailing bytes returns the
\* frame, consumes exactly the encoding and leaves the trailing bytes.
C3_NoOverRead ==
    (DecodeCalled /\ StartsWith(call.pre, Input)) =>
        (ReturnedFrame(frame) /\ buf = Drop(call.pre, Len(Input)))

\* C4: a decode call (top-level or per-variant) that does not return a frame
\* leaves the buffer as it was before the call.
C4_UnchangedOnFailure ==
    (call.op # "none" /\ call.res.tag # "Ok") => buf = call.pre

\* C5: RespNull::decode and RespNullArray::decode return InvalidFrameLength(n)
\* on the marker followed by n > 0 bytes, the null value on exactly the marker,
\* and NotComplete on a proper prefix of the marker.
NullMarker(op) == IF op = "RespNull" THEN <<"_">> \o CRLF ELSE <<"*", "-", "1">> \o CRLF
NullValue(op) == IF op = "RespNull" THEN RespNull ELSE RespNullArray
C5_NullMarkerDecode ==
    call.op \in {"RespNull", "RespNullArray"} =>
        LET m == NullMarker(call.op)
        IN  /\ (StartsWith(call.pre, m) /\ Len(call.pre) > Len(m)) =>
                   (call.res.tag = "Err" /\ call.res.err = InvalidFrameLength(Len(call.pre) - Len(m)))
            /\ call.pre = m => ReturnedFrame(NullValue(call.op))
            /\ IsProperPrefix(call.pre, m) => ReturnedNotComplete
\* RespNullArray::decode has rejected its marker followed by two more bytes
C5_Witness ==
    /\ call.op = "RespNullArray"
    /\ call.pre = <<"*", "-", "1", CR, LF, "k", "k">>
    /\ call.res.tag = "Err"
    /\ call.res.err = InvalidFrameLength(2)

-----------------------------------------------------------------------------
(* The store (backend/mod.rs).  A DashMap is a function on the set of its  *)
(* keys; each of its operations is atomic.                                 *)

\* DashMap::new()
DashMap_new == <<>>

\* the mutation of Backend::get whose lookup always misses
Backend_get_miss(m, key) == None
\* Backend::get
Backend_get(m, key) == IF key \in DOMAIN m THEN Some(m[key]) ELSE None

\* the mutation of Backend::set that keeps the value of a key it already holds
Backend_set_keep(m, key, value) == IF key \in DOMAIN m THEN m ELSE (key :> value) @@ m
\* the mutation of Backend::set that stores into a map emptied first
Backend_set_clear(m, key, value) == (key :> value)
\* Backend::set: DashMap::insert replaces the value of a key it already holds
Backend_set(m, key, value) == (key :> value) @@ m

\* Backend::hget
Backend_hget(h, key, field) ==
    IF key \in DOMAIN h
    THEN IF field \in DOMAIN h[key] THEN Some(h[key][field]) ELSE None
    ELSE None

\* the mutation of Backend::hset that stores a fresh inner map holding only
\* the new field
Backend_hset_fresh(h, key, field, value) == (key :> (field :> value)) @@ h
\* Backend::hset: entry(key).or_default(), then insert
Backend_hset(h, key, field, value) ==
    LET inner == IF key \in DOMAIN h THEN h[key] ELSE DashMap_new
    IN  (key :> ((field :> value) @@ inner)) @@ h

\* Backend::hgetall
Backend_hgetall(h, key) == IF key \in DOMAIN h THEN Some(h[key]) ELSE None

-----------------------------------------------------------------------------
(* The command layer (cmd/mod.rs, cmd/map.rs, cmd/hmap.rs)                 *)

InvalidCommand == [kind |-> "InvalidCommand"]
InvalidArgument == [kind |-> "InvalidArgument"]
Utf8Error == [kind |-> "Utf8Error"]

\* a Command is the tuple of its variant name and its fields
Get(key) == <<"Get", key>>
Set(key, value) == <<"Set", key, value>>
HGet(key, field) == <<"HGet", key, field>>
HSet(key, field, value) == <<"HSet", key, field, value>>
HGetAll(key, sort) == <<"HGetAll", key, sort>>

RESP_OK == SimpleString(<<"O", "K">>)

\* String::from_utf8: every ASCII byte sequence is valid UTF-8
String_from_utf8(b) ==
    IF \A i \in 1..Len(b) : \E j \in 1..Len(Alphabet) : Alphabet[j] = b[i]
    THEN Ok(b) ELSE Err(Utf8Error)

\* validate_command: the element count, then each name against the
\* lower-cased element
RECURSIVE validate_names(_, _, _)
validate_names(value, names, i) ==
    IF i > Len(names) THEN Ok(TRUE)
    ELSE IF Variant(value[i]) = "BulkString"
    THEN IF to_ascii_lowercase(Payload(value[i])) # names[i]
         THEN Err(InvalidCommand)
         ELSE validate_names(value, names, i + 1)
    ELSE Err(InvalidCommand)
\* the mutation of validate_command that rejects only an Array that is too
\* short
validate_command_atleast(value, names, n_args) ==
    IF Len(value) < n_args + Len(names) THEN Err(InvalidArgument)
    ELSE validate_names(value, names, 1)
validate_command(value, names, n_args) ==
    IF Len(value) # n_args + Len(names) THEN Err(InvalidArgument)
    ELSE validate_names(value, names, 1)

\* extract_args: skip(start)
extract_args(value, start) == Drop(value, start)

IsBulk(args, i) == IF Len(args) >= i THEN Variant(args[i]) = "BulkString" ELSE FALSE

\* TryFrom<RespArray> for Get
Get_try_from(value) ==
    LET ok == validate_command(value, << <<"g", "e", "t">> >>, 1)
        args == extract_args(value, 1)
    IN  IF ok.tag # "Ok" THEN ok
        ELSE IF IsBulk(args, 1)
        THEN LET key == String_from_utf8(Payload(args[1]))
             IN  IF key.tag = "Ok" THEN Ok(Get(key.v)) ELSE key
        ELSE Err(InvalidArgument)

\* the mutation of TryFrom<RespArray> for Set that reports a key that is no
\* BulkString as InvalidCommand
Set_try_from_invalidcommand(value) ==
    LET ok == validate_command(value, << <<"s", "e", "t">> >>, 2)
        args == extract_args(value, 1)
    IN  IF ok.tag # "Ok" THEN ok
        ELSE IF IsBulk(args, 1) /\ Len(args) >= 2
        THEN LET key == String_from_utf8(Payload(args[1]))
             IN  IF key.tag = "Ok" THEN Ok(Set(key.v, args[2])) ELSE key
        ELSE Err(InvalidCommand)
\* TryFrom<RespArray> for Set
Set_try_from(value) ==
    LET ok == validate_command(value, << <<"s", "e", "t">> >>, 2)
        args == extract_args(value, 1)
    IN  IF ok.tag # "Ok" THEN ok
        ELSE IF IsBulk(args, 1) /\ Len(args) >= 2
        THEN LET key == String_from_utf8(Payload(args[1]))
             IN  IF key.tag = "Ok" THEN Ok(Set(key.v, args[2])) ELSE key
        ELSE Err(InvalidArgument)

\* TryFrom<RespArray> for HGet
HGet_try_from(value) ==
    LET ok == validate_command(value, << <<"h", "g", "e", "t">> >>, 2)
        args == extract_args(value, 1)
    IN  IF ok.tag # "Ok" THEN ok
        ELSE IF IsBulk(args, 1) /\ IsBulk(args, 2)
        THEN LET key == String_from_utf8(Payload(args[1]))
                 field == String_from_utf8(Payload(args[2]))
             IN  IF key.tag # "Ok" THEN key
                 ELSE IF field.tag # "Ok" THEN field
                 ELSE Ok(HGet(key.v, field.v))
        ELSE Err(InvalidArgument)

\* TryFrom<RespArray> for HGetAll: the sort flag is false
HGetAll_try_from(value) ==
    LET ok == validate_command(value, << <<"h", "g", "e", "t", "a", "l", "l">> >>, 1)
        args == extract_args(value, 1)
    IN  IF ok.tag # "Ok" THEN ok
        ELSE IF IsBulk(args, 1)
        THEN LET key == String_from_utf8(Payload(args[1]))
             IN  IF key.tag = "Ok" THEN Ok(HGetAll(key.v, FALSE)) ELSE key
        ELSE Err(InvalidArgument)

\* TryFrom<RespArray> for HSet
HSet_try_from(value) ==
    LET ok == validate_command(value, << <<"h", "s", "e", "t">> >>, 3)
        args == extract_args(value, 1)
    IN  IF ok.tag # "Ok" THEN ok
        ELSE IF IsBulk(args, 1) /\ IsBulk(args, 2) /\ Len(args) >= 3
        THEN LET key == String_from_utf8(Payload(args[1]))
                 field == String_from_utf8(Payload(args[2]))
             IN  IF key.tag # "Ok" THEN key
                 ELSE IF field.tag # "Ok" THEN field
                 ELSE Ok(HSet(key.v, field.v, args[3]))
        ELSE Err(InvalidArgument)

\* TryFrom<RespArray> for Command: the first element is matched byte for byte
\* against the lower-case names
Command_try_from(v) ==
    IF v = <<>> THEN Err(InvalidCommand)
    ELSE IF Variant(v[1]) # "BulkString" THEN Err(InvalidCommand)
    ELSE LET cmd == Payload(v[1])
         IN  IF cmd = <<"g", "e", "t">> THEN Get_try_from(v)
             ELSE IF cmd = <<"s", "e", "t">> THEN Set_try_from(v)
             ELSE IF cmd = <<"h", "g", "e", "t">> THEN HGet_try_from(v)
             ELSE IF cmd = <<"h", "s", "e", "t">> THEN HSet_try_from(v)
             ELSE IF cmd = <<"h", "g", "e", "t", "a", "l", "l">> THEN HGetAll_try_from(v)
             ELSE Err(InvalidCommand)

\* the conversion of a decoded frame that request_handler calls: an Array goes
\* to TryFrom<RespArray>, any other frame is not a command
Command_try_from_frame(f) ==
    IF Variant(f) = "Array" THEN Command_try_from(Payload(f)) ELSE Err(InvalidCommand)

\* Get::execute
Get_execute(m, key) ==
    LET value == Backend_get(m, key)
    IN  IF value.some THEN value.v ELSE RespNull

\* the mutation of HGet::execute that answers a miss with the null bulk string
HGet_execute_nullbulk(h, key, field) ==
    LET value == Backend_hget(h, key, field)
    IN  IF value.some THEN value.v ELSE RespNullBulkString
\* HGet::execute
HGet_execute(h, key, field) ==
    LET value == Backend_hget(h, key, field)
    IN  IF value.some THEN value.v ELSE RespNull

\* DashMap::iter visits the entries in an order the map chooses: every
\* enumeration of the fields is possible
IterOrders(inner) ==
    LET n == Cardinality(DOMAIN inner)
    IN  { q \in [1..n -> DOMAIN inner] : \A i, j \in 1..n : q[i] = q[j] => i = j }

IsSortedByField(q) == \A i \in 1..Len(q) - 1 : str_less(q[i], q[i + 1])

\* the mutation of the flat_map that pushes the field names without their values
flat_fields(q, inner) == [i \in 1..Len(q) |-> BulkString(q[i])]
\* flat_map(|(k, v)| vec![BulkString::from(k).into(), v])
RECURSIVE flat_pairs(_, _)
flat_pairs(q, inner) ==
    IF q = <<>> THEN <<>>
    ELSE <<BulkString(Head(q)), inner[Head(q)]>> \o flat_pairs(Tail(q), inner)

\* the mutation of HGetAll::execute that never sorts
HGetAll_execute_unsorted(h, key, sort) ==
    IF key \in DOMAIN h
    THEN { RespArray(flat_pairs(q, h[key])) : q \in IterOrders(h[key]) }
    ELSE { RespArray(<<>>) }
\* HGetAll::execute: the frames it can return
HGetAll_execute(h, key, sort) ==
    IF key \in DOMAIN h
    THEN { RespArray(flat_pairs(q, h[key])) :
             q \in { o \in IterOrders(h[key]) : sort => IsSortedByField(o) } }
    ELSE { RespArray(<<>>) }

\* what executing a command can do: the response and the store afterwards
Outcome(resp, m, h) == [resp |-> resp, map |-> m, hmap |-> h]

\* CommandExecutor::execute, dispatched on the variant of the Command
Command_execute(cmd, m, h) ==
    IF cmd[1] = "Get" THEN { Outcome(Get_execute(m, cmd[2]), m, h) }
    ELSE IF cmd[1] = "Set" THEN { Outcome(RESP_OK, Backend_set(m, cmd[2], cmd[3]), h) }
    ELSE IF cmd[1] = "HGet" THEN { Outcome(HGet_execute(h, cmd[2], cmd[3]), m, h) }
    ELSE IF cmd[1] = "HSet" THEN { Outcome(RESP_OK, m, Backend_hset(h, cmd[2], cmd[3], cmd[4])) }
    ELSE { Outcome(resp, m, h) : resp \in HGetAll_execute(h, cmd[2], cmd[3]) }

-----------------------------------------------------------------------------
(* The server (main.rs, network.rs): the accept loop spawns one            *)
(* stream_handler per connection; the handlers share the store.            *)

Conns == { "c1", "c2" }

\* total number of requests the clients send
MaxReqs == 3
\* the largest number of bytes one socket read returns when more are waiting
FragLen == 9

Keys == { <<"k">> }
Values == { BulkString(<<"a">>), Integer(12), RespArray(<<Boolean(TRUE)>>) }

GetRequest(name, k) == RespArray(<<BulkString(name), BulkString(k)>>)
SetRequest(name, k, v) == RespArray(<<BulkString(name), BulkString(k), v>>)

\* what the clients send: GET and SET on the keys, a GET spelled in upper
\* case, an unknown command, a GET without its key
Requests ==
    { GetRequest(<<"g", "e", "t">>, k) : k \in Keys }
    \cup { SetRequest(<<"s", "e", "t">>, k, v) : k \in Keys, v \in Values }
    \cup { GetRequest(<<"G", "E", "T">>, k) : k \in Keys }
    \cup { RespArray(<<BulkString(<<"U", "N", "K", "N", "O", "W", "N">>)>>),
           RespArray(<<BulkString(<<"g", "e", "t">>)>>) }

Closed == { "closed", "failed", "panicked" }

CodecIdle == pending = <<>> /\ buf = <<>> /\ call = NoCall /\ frame = <<>>

\* Backend::new(), no connection accepted yet
Init ==
    /\ CodecIdle
    /\ map = DashMap_new
    /\ hmap = DashMap_new
    /\ wire = [c \in Conns |-> <<>>]
    /\ eof = [c \in Conns |-> FALSE]
    /\ rbuf = [c \in Conns |-> <<>>]
    /\ pc = [c \in Conns |-> "new"]
    /\ cur = [c \in Conns |-> <<>>]
    /\ out = [c \in Conns |-> <<>>]
    /\ log = [c \in Conns |-> <<>>]
    /\ sent = 0
    /\ ver = <<>>

\* one entry of a connection's history: the decoded request, the result of
\* parsing it, the response computed for it, how far it got, and the number
\* of SETs the store had applied to its key when it was executed
Entry(req) == [req |-> req, cmd |-> NoCall, ans |-> <<>>, st |-> "decoded", at |-> 0]
Last(l) == l[Len(l)]
SetLast(l, e) == [l EXCEPT ![Len(l)] = e]

Written(k) == IF k \in DOMAIN ver THEN ver[k] ELSE <<>>

\* main: listener.accept() and tokio::spawn(stream_handler(..))
Accept(c) ==
    /\ pc[c] = "new"
    /\ pc' = [pc EXCEPT ![c] = "read"]
    /\ UNCHANGED <<codecVars, map, hmap, wire, eof, rbuf, cur, out, log, sent, ver>>

\* a client writes the encoding of a request to its socket
ClientSend(c, r) ==
    /\ pc[c] \notin Closed \cup {"new"}
    /\ ~eof[c]
    /\ sent < MaxReqs
    /\ wire' = [wire EXCEPT ![c] = @ \o encode(r)]
    /\ sent' = sent + 1
    /\ UNCHANGED <<codecVars, map, hmap, eof, rbuf, pc, cur, out, log, ver>>

\* a client closes its socket
ClientClose(c) ==
    /\ pc[c] \notin Closed \cup {"new"}
    /\ ~eof[c]
    /\ eof' = [eof EXCEPT ![c] = TRUE]
    /\ UNCHANGED <<codecVars, map, hmap, wire, rbuf, pc, cur, out, log, sent, ver>>

\* framed.next(): the buffer holds no whole frame and the socket has bytes;
\* a read returns some or all of them
SocketRead(c) ==
    /\ pc[c] = "read"
    /\ wire[c] # <<>>
    /\ \E n \in { Len(wire[c]), IF Len(wire[c]) > FragLen THEN FragLen ELSE Len(wire[c]) } :
         /\ rbuf' = [rbuf EXCEPT ![c] = @ \o Slice(wire[c], 0, n)]
         /\ wire' = [wire EXCEPT ![c] = Drop(@, n)]
    /\ pc' = [pc EXCEPT ![c] = "decode"]
    /\ UNCHANGED <<codecVars, map, hmap, eof, cur, out, log, sent, ver>>

\* the mutation of the codec that reports every decode error as Ok(None), so
\* that the handler goes back to the socket
Decoded_lenient(c, r, incomplete) ==
    /\ rbuf' = [rbuf EXCEPT ![c] = r.buf]
    /\ IF r.tag = "Ok"
       THEN /\ cur' = [cur EXCEPT ![c] = r.v]
            /\ log' = [log EXCEPT ![c] = Append(@, Entry(r.v))]
            /\ pc' = [pc EXCEPT ![c] = "handle"]
       ELSE /\ UNCHANGED <<cur, log>>
            /\ pc' = [pc EXCEPT ![c] = IF r.tag = "Panic" THEN "panicked" ELSE incomplete]

\* the mutation in which a decode error or panic escapes the task and ends
\* the process, and with it every handler
Decoded_crash(c, r, incomplete) ==
    /\ rbuf' = [rbuf EXCEPT ![c] = r.buf]
    /\ IF r.tag = "Ok"
       THEN /\ cur' = [cur EXCEPT ![c] = r.v]
            /\ log' = [log EXCEPT ![c] = Append(@, Entry(r.v))]
            /\ pc' = [pc EXCEPT ![c] = "handle"]
       ELSE /\ UNCHANGED <<cur, log>>
            /\ pc' = IF r.tag = "Panic" THEN [d \in Conns |-> "panicked"]
                     ELSE IF r.err = NotComplete THEN [pc EXCEPT ![c] = incomplete]
                     ELSE [d \in Conns |-> "failed"]

\* what stream_handler does with the result of RespFrameCodec::decode:
\* a frame is handled, an error or a panic ends the handler
Decoded(c, r, incomplete) ==
    /\ rbuf' = [rbuf EXCEPT ![c] = r.buf]
    /\ IF r.tag = "Ok"
       THEN /\ cur' = [cur EXCEPT ![c] = r.v]
            /\ log' = [log EXCEPT ![c] = Append(@, Entry(r.v))]
            /\ pc' = [pc EXCEPT ![c] = "handle"]
       ELSE /\ UNCHANGED <<cur, log>>
            /\ pc' = [pc EXCEPT ![c] =
                        IF r.tag = "Panic" THEN "panicked"
                        ELSE IF r.err = NotComplete THEN incomplete
                        ELSE "failed"]

\* framed.next(): Decoder::decode on the read buffer; NotComplete is Ok(None)
\* and sends Framed back to the socket
CodecDecode(c) ==
    /\ pc[c] = "decode"
    /\ Decoded(c, RespFrame_decode(rbuf[c]), "read")
    /\ UNCHANGED <<codecVars, map, hmap, wire, eof, out, sent, ver>>

\* framed.next() at the end of the stream: Decoder::decode_eof decodes once
\* more; Ok(None) ends the stream if the buffer is empty and is the error
\* "bytes remaining on stream" if it is not
SocketEof(c) ==
    /\ pc[c] = "read"
    /\ wire[c] = <<>>
    /\ eof[c]
    /\ LET r == RespFrame_decode(rbuf[c])
       IN  Decoded(c, r, IF r.buf = <<>> THEN "closed" ELSE "failed")
    /\ UNCHANGED <<codecVars, map, hmap, wire, eof, out, sent, ver>>

\* the store and the histories after executing cmd with outcome o
Executed(c, cmd, o) ==
    /\ map' = o.map
    /\ hmap' = o.hmap
    /\ cur' = [cur EXCEPT ![c] = o.resp]
    /\ pc' = [pc EXCEPT ![c] = "send"]
    /\ ver' = IF cmd[1] = "Set" THEN (cmd[2] :> Append(Written(cmd[2]), cmd[3])) @@ ver ELSE ver
    /\ log' = [log EXCEPT ![c] = SetLast(@, [Last(@) EXCEPT
                  !.cmd = Ok(cmd), !.ans = <<o.resp>>, !.st = "executed",
                  !.at = IF cmd[1] \in {"Get", "Set"} THEN Len(Written(cmd[2])) ELSE 0])]

\* request_handler: Command::try_from(frame)?, then cmd.execute(&backend);
\* stream_handler returns the error of request_handler with ?
RequestHandler(c) ==
    /\ pc[c] = "handle"
    /\ LET cmd == Command_try_from_frame(cur[c])
       IN  IF cmd.tag = "Ok"
           THEN \E o \in Command_execute(cmd.v, map, hmap) : Executed(c, cmd.v, o)
           ELSE /\ pc' = [pc EXCEPT ![c] = "failed"]
                /\ log' = [log EXCEPT ![c] = SetLast(@, [Last(@) EXCEPT !.cmd = cmd, !.st = "rejected"])]
                /\ UNCHANGED <<map, hmap, cur, ver>>
    /\ UNCHANGED <<codecVars, wire, eof, rbuf, out, sent>>

\* framed.send(response.frame): Encoder::encode, then the bytes go to the socket
FramedSend(c) ==
    /\ pc[c] = "send"
    /\ out' = [out EXCEPT ![c] = @ \o encode(cur[c])]
    /\ log' = [log EXCEPT ![c] = SetLast(@, [Last(@) EXCEPT !.st = "answered"])]
    /\ pc' = [pc EXCEPT ![c] = "decode"]
    /\ UNCHANGED <<codecVars, map, hmap, wire, eof, rbuf, cur, sent, ver>>

\* framed.send(..)?: the write fails on a socket the client has closed
SendFail(c) ==
    /\ pc[c] = "send"
    /\ eof[c]
    /\ pc' = [pc EXCEPT ![c] = "failed"]
    /\ UNCHANGED <<codecVars, map, hmap, wire, eof, rbuf, cur, out, log, sent, ver>>

ServerNext(menu) ==
    \E c \in Conns :
        \/ Accept(c)
        \/ \E r \in menu : ClientSend(c, r)
        \/ ClientClose(c)
        \/ SocketRead(c)
        \/ SocketEof(c)
        \/ CodecDecode(c)
        \/ RequestHandler(c)
        \/ FramedSend(c)
        \/ SendFail(c)

Next == ServerNext(Requests)

Spec == Init /\ [][Next]_vars

-----------------------------------------------------------------------------
(* Claims about the command layer, the connection loop and the store,      *)
(* checked under Spec                                                      *)

Entries == { <<c, i>> : c \in Conns, i \in 1..MaxReqs }
IsEntry(ci) == ci[2] <= Len(log[ci[1]])
EntryAt(ci) == log[ci[1]][ci[2]]
\* the request was parsed and executed
Ran(e) == e.st \in {"executed", "answered"}
RanAs(e, variant, key) == IF Ran(e) THEN e.cmd.v[1] = variant /\ e.cmd.v[2] = key ELSE FALSE

CommandNames ==
    { <<"g", "e", "t">>, <<"s", "e", "t">>, <<"h", "g", "e", "t">>,
      <<"h", "s", "e", "t">>, <<"h", "g", "e", "t", "a", "l", "l">> }
NamesCommand(req) ==
    IF Variant(req) # "Array" THEN FALSE
    ELSE IF Payload(req) = <<>> THEN FALSE
    ELSE IF Variant(Payload(req)[1]) # "BulkString" THEN FALSE
    ELSE to_ascii_lowercase(Payload(Payload(req)[1])) \in CommandNames
\* the same request with its command name in lower case
LowerCased(req) ==
    RespArray(<<BulkString(to_ascii_lowercase(Payload(Payload(req)[1])))>> \o Tail(Payload(req)))

\* C6: a request whose command name is an upper/lower-case variant of get,
\* set, hget, hset or hgetall and that has the right number of arguments
\* parses to the same Command as the request with the lower-case name.
C6_CaseInsensitiveName ==
    \A ci \in Entries :
        IF IsEntry(ci) /\ EntryAt(ci).st # "decoded" /\ NamesCommand(EntryAt(ci).req)
        THEN LET lower == Command_try_from_frame(LowerCased(EntryAt(ci).req))
             IN  lower.tag = "Ok" => EntryAt(ci).cmd = lower
        ELSE TRUE

\* C7: when a decoded frame fails command parsing, the connection loop
\* computes one SimpleError response for it and the handler does not end on
\* that request.
C7_CommandErrorRecovered ==
    \A ci \in Entries :
        IF IsEntry(ci) /\ EntryAt(ci).st # "decoded" /\ EntryAt(ci).cmd.tag = "Err"
        THEN /\ Len(EntryAt(ci).ans) = 1
             /\ Variant(EntryAt(ci).ans[1]) = "Error"
             /\ ci[2] = Len(log[ci[1]]) => pc[ci[1]] # "failed"
        ELSE TRUE

\* the bytes of the responses of the answered entries, in the order of the log
RECURSIVE Answers(_)
Answers(l) ==
    IF l = <<>> THEN <<>>
    ELSE (IF Head(l).st = "answered" THEN encode(Head(l).ans[1]) ELSE <<>>) \o Answers(Tail(l))

\* the handler is done with the entry: a later frame was decoded, or the
\* handler is back at framed.next() or has ended
DoneWith(ci) == ci[2] < Len(log[ci[1]]) \/ pc[ci[1]] \notin {"handle", "send"}
\* the write of the response failed on a closed socket
WriteFailed(ci) == EntryAt(ci).st = "executed" /\ pc[ci[1]] = "failed"

\* C8: on each connection every decoded request frame gets exactly one
\* response (unless the write itself fails), the socket has received the
\* responses in the order the requests were decoded, and a request is handled
\* only after the response to the previous one was handed to the socket.
C8_PerConnectionFifo ==
    /\ \A c \in Conns : out[c] = Answers(log[c])
    /\ \A ci \in Entries :
        IF IsEntry(ci)
        THEN /\ (DoneWith(ci) /\ ~WriteFailed(ci)) => EntryAt(ci).st = "answered"
             /\ (ci[2] > 1 /\ EntryAt(ci).st # "decoded") => log[ci[1]][ci[2] - 1].st = "answered"
        ELSE TRUE

\* the indices below i of the SETs on key that connection c has executed
OwnSets(c, i, key) == { j \in 1..(i - 1) : RanAs(log[c][j], "Set", key) }
Max(S) == CHOOSE x \in S : \A y \in S : y <= x

\* C9: every SET is answered with SimpleString OK, and a GET k that follows
\* SETs on k of the same connection, no other connection having written k,
\* returns the value of the last of these SETs.
C9_SetThenGet ==
    \A ci \in Entries :
        IF IsEntry(ci) /\ Ran(EntryAt(ci))
        THEN LET e == EntryAt(ci)
                 own == OwnSets(ci[1], ci[2], e.cmd.v[2])
             IN  /\ e.cmd.v[1] = "Set" => e.ans = <<RESP_OK>>
                 /\ (e.cmd.v[1] = "Get" /\ own # {} /\ e.at = Cardinality(own)) =>
                        e.ans = <<log[ci[1]][Max(own)].cmd.v[3]>>
        ELSE TRUE
\* a connection has set k to a bulk string, then to an array, and its GET k
\* was answered with the array
C9_Witness ==
    \E c \in Conns :
        /\ Len(log[c]) = 3
        /\ log[c][1].cmd = Ok(Set(<<"k">>, BulkString(<<"a">>)))
        /\ log[c][2].cmd = Ok(Set(<<"k">>, RespArray(<<Boolean(TRUE)>>)))
        /\ log[c][3].cmd = Ok(Get(<<"k">>))
        /\ log[c][3].st = "answered"
        /\ log[c][3].ans = <<RespArray(<<Boolean(TRUE)>>)>>
        /\ out[c] = encode(RESP_OK) \o encode(RESP_OK) \o encode(RespArray(<<Boolean(TRUE)>>))

\* C10: a GET returns Null if no SET on its key has taken effect and else one
\* of the values written to the key by the SETs applied so far; two GETs on a
\* key between which no SET on it took effect, on whatever connections,
\* return the same value.
C10_Linearizable ==
    \A ci \in Entries :
        IF IsEntry(ci) /\ RanAs(EntryAt(ci), "Get", EntryAt(ci).cmd.v[2])
        THEN LET e == EntryAt(ci)
                 written == Written(e.cmd.v[2])
             IN  /\ IF e.at = 0 THEN e.ans = <<RespNull>>
                    ELSE \E n \in 1..e.at : e.ans = <<written[n]>>
                 /\ \A dj \in Entries :
                        (IsEntry(dj) /\ RanAs(EntryAt(dj), "Get", e.cmd.v[2]) /\ EntryAt(dj).at = e.at)
                            => EntryAt(dj).ans = e.ans
        ELSE TRUE
\* two connections have each set k, to different values, and the GET of the
\* first writer was answered with the value of the second
C10_Witness ==
    \E c, d \in Conns :
        /\ c # d
        /\ Len(log[c]) = 2 /\ Len(log[d]) = 1
        /\ log[c][1].cmd = Ok(Set(<<"k">>, BulkString(<<"a">>))) /\ log[c][1].at = 0
        /\ log[d][1].cmd = Ok(Set(<<"k">>, Integer(12))) /\ log[d][1].at = 1
        /\ log[c][2].cmd = Ok(Get(<<"k">>)) /\ log[c][2].at = 2
        /\ log[c][2].st = "answered"
        /\ log[c][2].ans = <<Integer(12)>>

-----------------------------------------------------------------------------
(* The command harness: a test program that owns one Backend, builds       *)
(* Commands (as struct literals, or from frames with try_from) and         *)
(* executes them, as the tests of cmd/ do.  call holds the last call: the  *)
(* command or frame, the store before the call, the result.                *)

HashKey == <<"m", "a", "p">>
PlainKey == <<"k">>
HashFields ==
    { <<"h", "e", "l", "l", "o">>, <<"h", "e", "l", "l", "o", "1">>,
      <<"g", "o", "o", "d", "b", "y", "e">> }
HashValues == { BulkString(<<"w", "o", "r", "l", "d">>), BulkString(<<"l", "i", "n">>) }

\* the Commands the harness builds
DirectCommands ==
    { HSet(HashKey, f, v) : f \in HashFields, v \in HashValues }
    \cup { HGet(k, f) : k \in {HashKey, PlainKey}, f \in HashFields }
    \cup { HGetAll(k, s) : k \in {HashKey, PlainKey}, s \in BOOLEAN }
    \cup { Get(PlainKey) }
    \cup { Set(PlainKey, v) : v \in HashValues }

ExecInit ==
    /\ CodecIdle
    /\ ServerIdle

\* cmd.execute(&backend)
Execute(cmd) ==
    /\ \E o \in Command_execute(cmd, map, hmap) :
         /\ map' = o.map
         /\ hmap' = o.hmap
         /\ call' = [op |-> "execute", arg |-> cmd, pre |-> <<map, hmap>>, res |-> Ok(o.resp)]
    /\ UNCHANGED <<pending, buf, frame, wire, eof, rbuf, pc, cur, out, log, sent, ver>>

\* the longest argument list of a command frame of the harness
MaxArgs == 4
ArgFrames == { BulkString(PlainKey), Integer(1) }

\* the frames the harness parses: each command name followed by up to
\* MaxArgs arguments
CommandFrames ==
    { RespArray(<<BulkString(name)>> \o args) :
        name \in CommandNames, args \in SeqsUpTo(ArgFrames, MaxArgs) }

\* Command::try_from(frame)
Parse(f) ==
    /\ call' = [op |-> "try_from", arg |-> f, pre |-> <<map, hmap>>, res |-> Command_try_from_frame(f)]
    /\ UNCHANGED <<pending, buf, frame, serverVars>>

ExecNext ==
    \/ \E cmd \in DirectCommands : Execute(cmd)
    \/ \E f \in CommandFrames : Parse(f)

ExecSpec == ExecInit /\ [][ExecNext]_vars

-----------------------------------------------------------------------------
(* Claims about command execution and parsing, checked under ExecSpec      *)

Executing(variant) == IF call.op = "execute" THEN call.arg[1] = variant ELSE FALSE
HashBefore == call.pre[2]
MapBefore == call.pre[1]

\* C11: HSET k f v answers SimpleString OK and leaves k with a hash; HGET k f
\* then returns v, and HGET on every other key and field returns what it
\* returned before the HSET.
C11_HSetThenHGet ==
    Executing("HSet") =>
        LET k == call.arg[2]
            f == call.arg[3]
            v == call.arg[4]
        IN  /\ call.res = Ok(RESP_OK)
            /\ k \in DOMAIN hmap
            /\ HGet_execute(hmap, k, f) = v
            /\ \A k2 \in {HashKey, PlainKey} : \A g \in HashFields :
                   <<k2, g>> # <<k, f>> => HGet_execute(hmap, k2, g) = HGet_execute(HashBefore, k2, g)
            /\ map = MapBefore
\* an HSET has overwritten field hello of a hash that also holds goodbye
C11_Witness ==
    /\ Executing("HSet")
    /\ call.arg = HSet(HashKey, <<"h", "e", "l", "l", "o">>, BulkString(<<"l", "i", "n">>))
    /\ HGet_execute(HashBefore, HashKey, <<"h", "e", "l", "l", "o">>) = BulkString(<<"w", "o", "r", "l", "d">>)
    /\ HGet_execute(HashBefore, HashKey, <<"g", "o", "o", "d", "b", "y", "e">>) = BulkString(<<"l", "i", "n">>)
    /\ HGet_execute(hmap, HashKey, <<"h", "e", "l", "l", "o">>) = BulkString(<<"l", "i", "n">>)
    /\ HGet_execute(hmap, HashKey, <<"g", "o", "o", "d", "b", "y", "e">>) = BulkString(<<"l", "i", "n">>)

\* C12: GET k on a key the map store does not hold returns the Null frame;
\* HGET k f returns the Null frame when k has no hash and when the hash of k
\* has no field f.
C12_MissesAnswerNull ==
    /\ (Executing("Get") /\ call.arg[2] \notin DOMAIN MapBefore) => call.res = Ok(RespNull)
    /\ Executing("HGet") =>
           IF call.arg[2] \notin DOMAIN HashBefore THEN call.res = Ok(RespNull)
           ELSE call.arg[3] \notin DOMAIN HashBefore[call.arg[2]] => call.res = Ok(RespNull)
\* an HGET of field goodbye was answered Null by a hash that holds only hello
C12_Witness ==
    /\ Executing("HGet")
    /\ call.arg = HGet(HashKey, <<"g", "o", "o", "d", "b", "y", "e">>)
    /\ HashKey \in DOMAIN HashBefore
    /\ DOMAIN HashBefore[HashKey] = { <<"h", "e", "l", "l", "o">> }
    /\ call.res = Ok(RespNull)

\* the i-th field name and value of the Array xs = [f1, v1, f2, v2, ...]
FieldAt(xs, i) == xs[2 * i - 1]
ValueAt(xs, i) == xs[2 * i]
Pairs(xs) == 1..(Len(xs) \div 2)
Returned_Array == IF call.res.tag = "Ok" THEN Variant(call.res.v) = "Array" ELSE FALSE

\* C13: HGETALL with sort = true returns the fields of the hash in strictly
\* ascending lexicographic order of field name, each followed by the value
\* the hash holds for it.
C13_SortedHGetAll ==
    (Executing("HGetAll") /\ call.arg[3] /\ call.arg[2] \in DOMAIN hmap) =>
        /\ Returned_Array
        /\ LET xs == Payload(call.res.v)
               h == hmap[call.arg[2]]
           IN  /\ Len(xs) = 2 * Cardinality(DOMAIN h)
               /\ \A i \in Pairs(xs) :
                      /\ Variant(FieldAt(xs, i)) = "BulkString"
                      /\ Payload(FieldAt(xs, i)) \in DOMAIN h
                      /\ ValueAt(xs, i) = h[Payload(FieldAt(xs, i))]
               /\ \A i \in Pairs(xs) : \A j \in Pairs(xs) :
                      i < j => str_less(Payload(FieldAt(xs, i)), Payload(FieldAt(xs, j)))
\* a sorted HGETALL of a hash holding hello, hello1 and goodbye has answered
\* goodbye, hello, hello1 with their values
C13_Witness ==
    /\ Executing("HGetAll")
    /\ call.arg = HGetAll(HashKey, TRUE)
    /\ call.res = Ok(RespArray(<<
           BulkString(<<"g", "o", "o", "d", "b", "y", "e">>), BulkString(<<"l", "i", "n">>),
           BulkString(<<"h", "e", "l", "l", "o">>), BulkString(<<"w", "o", "r", "l", "d">>),
           BulkString(<<"h", "e", "l", "l", "o", "1">>), BulkString(<<"l", "i", "n">>) >>))

-----------------------------------------------------------------------------
(* The server with clients that send hash commands                         *)

Hello == <<"h", "e", "l", "l", "o">>
Goodbye == <<"g", "o", "o", "d", "b", "y", "e">>
World == BulkString(<<"w", "o", "r", "l", "d">>)
Lin == BulkString(<<"l", "i", "n">>)

HSetRequest(k, f, v) ==
    RespArray(<<BulkString(<<"h", "s", "e", "t">>), BulkString(k), BulkString(f), v>>)
HGetAllRequest(k) ==
    RespArray(<<BulkString(<<"h", "g", "e", "t", "a", "l", "l">>), BulkString(k)>>)

\* HSET map hello world, HSET map goodbye lin, HGETALL map
HashRequests ==
    { HSetRequest(HashKey, Hello, World), HSetRequest(HashKey, Goodbye, Lin),
      HGetAllRequest(HashKey) }

HashNext == ServerNext(HashRequests)

HashSpec == Init /\ [][HashNext]_vars

\* C14: a connection that has sent HSET map hello world, HSET map goodbye lin
\* and HGETALL map gets the Array [goodbye, lin, hello, world] as the answer
\* to its HGETALL.
C14_EndToEndHGetAll ==
    \A c \in Conns :
        IF Len(log[c]) = 3
        THEN ( /\ log[c][1].cmd = Ok(HSet(HashKey, Hello, World))
               /\ log[c][2].cmd = Ok(HSet(HashKey, Goodbye, Lin))
               /\ log[c][3].cmd = Ok(HGetAll(HashKey, FALSE)) )
             => log[c][3].ans = <<RespArray(<<BulkString(Goodbye), Lin, BulkString(Hello), World>>)>>
        ELSE TRUE

-----------------------------------------------------------------------------
(* More claims about command execution, checked under ExecSpec             *)

\* C15: HGETALL k returns an Array of 2n elements for a hash of n fields:
\* BulkString field names, each followed by the value stored under it, every
\* field of the hash exactly once; it returns the empty Array for a key
\* without a hash.
C15_HGetAllShape ==
    Executing("HGetAll") =>
        /\ Returned_Array
        /\ IF call.arg[2] \in DOMAIN hmap
           THEN LET xs == Payload(call.res.v)
                    h == hmap[call.arg[2]]
                IN  /\ Len(xs) = 2 * Cardinality(DOMAIN h)
                    /\ \A i \in Pairs(xs) :
                           /\ Variant(FieldAt(xs, i)) = "BulkString"
                           /\ ValueAt(xs, i) = Backend_hget(hmap, call.arg[2], Payload(FieldAt(xs, i))).v
                    /\ \A f \in DOMAIN h :
                           Cardinality({ i \in Pairs(xs) : FieldAt(xs, i) = BulkString(f) }) = 1
           ELSE call.res.v = RespArray(<<>>)
\* an unsorted HGETALL of a hash holding hello and goodbye has answered with
\* the four elements hello, world, goodbye, lin
C15_Witness ==
    /\ Executing("HGetAll")
    /\ call.arg = HGetAll(HashKey, FALSE)
    /\ call.res = Ok(RespArray(<<BulkString(Hello), World, BulkString(Goodbye), Lin>>))

-----------------------------------------------------------------------------
(* The server with clients that also send split and malformed requests     *)

\* a client writes raw bytes to its socket
ClientSendBytes(c, bytes) ==
    /\ pc[c] \notin Closed \cup {"new"}
    /\ ~eof[c]
    /\ sent < MaxReqs
    /\ wire' = [wire EXCEPT ![c] = @ \o bytes]
    /\ sent' = sent + 1
    /\ UNCHANGED <<codecVars, map, hmap, eof, rbuf, pc, cur, out, log, ver>>

FaultRequests ==
    { SetRequest(<<"s", "e", "t">>, PlainKey, BulkString(<<"a">>)),
      RespArray(<<BulkString(<<"U", "N", "K", "N", "O", "W", "N">>)>>) }

\* the header of GET k alone, the rest of GET k, a line that starts with no
\* frame prefix
GetHeader == <<"*", "2", CR, LF>>
GetRest == Drop(encode(GetRequest(<<"g", "e", "t">>, PlainKey)), Len(GetHeader))
Garbage == <<"k", CR, LF>>
FaultBytes == { GetHeader, GetRest, Garbage }

FaultNext ==
    \/ ServerNext(FaultRequests)
    \/ \E c \in Conns : \E bytes \in FaultBytes : ClientSendBytes(c, bytes)

FaultSpec == Init /\ [][FaultNext]_vars

\* C16: when decode returns NotComplete on an open socket the handler goes
\* back to the socket, writes nothing and stays open; when decode returns any
\* other error the handler ends; a handler that has ended decodes, executes
\* and writes nothing more.
C16_OnlyNotCompleteIsBenign ==
    [][ \A c \in Conns :
          /\ (pc[c] = "decode" /\ pc'[c] # "decode") =>
                 LET r == RespFrame_decode(rbuf[c])
                 IN  IF r.tag # "Err" THEN TRUE
                     ELSE IF r.err = NotComplete
                     THEN pc'[c] = "read" /\ out'[c] = out[c] /\ log'[c] = log[c]
                     ELSE pc'[c] \in Closed /\ out'[c] = out[c] /\ log'[c] = log[c]
          /\ pc[c] \in Closed =>
                 /\ pc'[c] = pc[c] /\ log'[c] = log[c] /\ out'[c] = out[c]
                 /\ (map' # map \/ hmap' # hmap) => \E d \in Conns \ {c} : log'[d] # log[d]
      ]_vars
\* one handler waits for the rest of a request of which it has the header,
\* having written nothing; another has ended on a line that is no frame,
\* having executed nothing
C16_Witness ==
    \E c, d \in Conns :
        /\ pc[c] = "read" /\ rbuf[c] = GetHeader /\ out[c] = <<>> /\ ~eof[c]
        /\ pc[d] = "failed" /\ rbuf[d] = Garbage /\ log[d] = <<>> /\ wire[d] # <<>>

\* the handler of c ends in this step with an error or a panic
Fails(c) == pc[c] \notin Closed /\ pc'[c] \in {"failed", "panicked"}
\* the next step of the accept loop for d or of the handler of d can be taken
\* (a handler that decodes always gets a result; one that waits on a socket
\* without bytes waits for its client)
GoesOn(d) ==
    CASE pc[d] = "new"    -> ENABLED Accept(d)
      [] pc[d] = "read"   -> IF wire[d] # <<>> THEN ENABLED SocketRead(d) ELSE TRUE
      [] pc[d] = "handle" -> ENABLED RequestHandler(d)
      [] pc[d] = "send"   -> ENABLED FramedSend(d)
      [] OTHER            -> TRUE

ArgCount(name) ==
    CASE name = <<"g", "e", "t">> -> 1
      [] name = <<"s", "e", "t">> -> 2
      [] name = <<"h", "g", "e", "t">> -> 2
      [] name = <<"h", "s", "e", "t">> -> 3
      [] name = <<"h", "g", "e", "t", "a", "l", "l">> -> 1
KeyCount(name) ==
    CASE name = <<"g", "e", "t">> -> 1
      [] name = <<"s", "e", "t">> -> 1
      [] name = <<"h", "g", "e", "t">> -> 2
      [] name = <<"h", "s", "e", "t">> -> 2
      [] name = <<"h", "g", "e", "t", "a", "l", "l">> -> 1
VariantOf(name) ==
    CASE name = <<"g", "e", "t">> -> "Get"
      [] name = <<"s", "e", "t">> -> "Set"
      [] name = <<"h", "g", "e", "t">> -> "HGet"
      [] name = <<"h", "s", "e", "t">> -> "HSet"
      [] name = <<"h", "g", "e", "t", "a", "l", "l">> -> "HGetAll"
\* the conversion of an Array that names a command has returned
Parsing == IF call.op = "try_from" THEN NamesCommand(call.arg) ELSE FALSE

C18_Accepted ==
    /\ Parsing
    /\ call.arg = RespArray(<<BulkString(<<"s", "e", "t">>), BulkString(PlainKey), Integer(1)>>)
    /\ call.res = Ok(Set(PlainKey, Integer(1)))

\* the bulk string of a frame of BinaryFrames
BinaryChild(f) ==
    IF Variant(f) = "BulkString" THEN f
    ELSE IF Variant(f) = "Array" THEN Payload(f)[1]
    ELSE IF Variant(f) = "Set" THEN Payload(f)[2]
    ELSE Payload(f)[1][2]
\* the same position in what decode returned
ReturnedChild == BinaryChild(call.res.v)

\* C19: RespFrame::decode on a buffer that starts with the encoding of a
\* BulkString whose payload holds CR, LF or CRLF, or of an Array, a Set or a
\* Map with such a BulkString as a child, returns that frame, the payload
\* byte for byte, and leaves in the buffer exactly what followed the encoding.
C19_BinarySafeBulkString ==
    (DecodeCalled /\ frame \in BinaryFrames /\ StartsWith(call.pre, Input)) =>
        /\ ReturnedFrame(frame)
        /\ Payload(ReturnedChild) = Payload(BinaryChild(frame))
        /\ buf = Drop(call.pre, Len(Input))
\* a Map whose value is the bulk string a\r\nb has been decoded from its
\* encoding
C19_Witness ==
    /\ frame = RespMap(<< <<<<"k">>, BulkString(<<"a", CR, LF, "b">>)>> >>)
    /\ DecodeCalled
    /\ call.pre = Input
    /\ ReturnedFrame(frame)
    /\ Payload(ReturnedChild) = <<"a", CR, LF, "b">>

\* the first bytes of the variants
Prefixes == { "+", "-", ":", "$", "*", "_", "#", ",", "%", "~" }
ReturnedInvalidFrameType == call.res.tag = "Err" /\ call.res.err = InvalidFrameType

\* C20: RespFrame::decode on an empty buffer returns NotComplete; on a buffer
\* that is not empty and whose first byte is the first byte of no variant it
\* returns InvalidFrameType; in both cases the buffer is as it was.
C20_FirstByteDispatch ==
    DecodeCalled =>
        IF call.pre = <<>> THEN ReturnedNotComplete /\ buf = call.pre
        ELSE IF Head(call.pre) \notin Prefixes
        THEN ReturnedInvalidFrameType /\ buf = call.pre
        ELSE TRUE
\* decode has been called on a buffer that holds the one byte k, which is
\* what is left of the input after its frame has been decoded
C20_Witness ==
    /\ DecodeCalled
    /\ call.pre = <<"k">>
    /\ ReturnedInvalidFrameType
    /\ buf = <<"k">>
\* decode has been called on the empty buffer
C20_Empty ==
    /\ DecodeCalled
    /\ call.pre = <<>>
    /\ ReturnedNotComplete

\* the Integer whose encoding is the input
IntegerInput == Variant(frame) = "Integer"
\* the bytes of the input between the ':' and the "\r\n"
IntegerText == SubSeq(Input, 2, Len(Input) - 2)

\* C21: the encoding of Integer n is ':', then '+' and the decimal digits of
\* n when n >= 0 and '-' and the decimal digits of -n when n < 0, then
\* "\r\n"; RespFrame::decode on that encoding returns Integer n, for every n
\* of the type, its least and greatest values included; and decode takes the
\* digits without a sign as well.
C21_IntegerWireForm ==
    /\ IntegerInput =>
           LET n == Payload(frame)
           IN  /\ Head(Input) = ":"
               /\ SubSeq(Input, Len(Input) - 1, Len(Input)) = CRLF
               /\ Head(IntegerText) = (IF n < 0 THEN "-" ELSE "+")
               /\ Tail(IntegerText) # <<>>
               /\ AllDigits(Tail(IntegerText))
               /\ digits_value(Tail(IntegerText), 0) = (IF n < 0 THEN 0 - n ELSE n)
    /\ (IntegerInput /\ DecodeCalled /\ call.pre = Input) => ReturnedFrame(frame)
    /\ (DecodeCalled /\ call.pre = Unsigned7) => ReturnedFrame(Integer(7))
\* the least value of the type has been decoded from its encoding
C21_Witness ==
    /\ frame = Integer(I64_MIN)
    /\ DecodeCalled
    /\ call.pre = Input
    /\ ReturnedFrame(Integer(I64_MIN))
\* the digits without a sign have been decoded
C21_Unsigned ==
    /\ DecodeCalled
    /\ call.pre = Unsigned7
    /\ ReturnedFrame(Integer(7))

-----------------------------------------------------------------------------
(* The map harness: a test program that builds a RespMap by insertions and *)
(* encodes it, as test_map_encode does.  ver keeps, for each key, the      *)
(* values inserted under it.                                               *)

MaxInserts == 4
InsertKeys == { <<"b">>, <<"a">>, <<"a", "b">>, <<"B">> }
InsertValues == { BulkString(<<"a">>), Integer(0 - 1) }

RECURSIVE Inserted(_)
Inserted(v) ==
    IF DOMAIN v = {} THEN 0
    ELSE LET k == CHOOSE x \in DOMAIN v : TRUE
         IN  Len(v[k]) + Inserted([x \in DOMAIN v \ {k} |-> v[x]])

\* RespMap::new()
MapInit ==
    /\ pending = <<>> /\ buf = <<>> /\ call = NoCall
    /\ frame = RespMap(<<>>)
    /\ ServerIdle

\* map.insert(key, value)
MapInsert(k, v) ==
    /\ Inserted(ver) < MaxInserts
    /\ frame' = RespMap(btree_insert(Payload(frame), k, v))
    /\ ver' = (k :> Append(IF k \in DOMAIN ver THEN ver[k] ELSE <<>>, v)) @@ ver
    /\ call' = [op |-> "insert", arg |-> <<k, v>>, res |-> Ok(TRUE)]
    /\ UNCHANGED <<pending, buf, map, hmap, wire, eof, rbuf, pc, cur, out, log, sent>>

\* frame.encode()
MapEncode ==
    /\ buf' = encode(frame)
    /\ call' = [op |-> "encode", arg |-> frame, res |-> Ok(encode(frame))]
    /\ UNCHANGED <<pending, frame, serverVars>>

MapNext == (\E k \in InsertKeys, v \in InsertValues : MapInsert(k, v)) \/ MapEncode
MapSpec == MapInit /\ [][MapNext]_vars

\* the keys inserted so far, least first
RECURSIVE Ascending(_)
Ascending(K) ==
    IF K = {} THEN <<>>
    ELSE LET least == CHOOSE k \in K : \A x \in K \ {k} : str_less(k, x)
         IN  <<least>> \o Ascending(K \ {least})
\* the value the map holds under k: the one inserted last
Held(k) == ver[k][Len(ver[k])]
\* "+key\r\n" and the encoding of the value, for each key of q in turn
RECURSIVE EntryBytes(_)
EntryBytes(q) ==
    IF q = <<>> THEN <<>>
    ELSE <<"+">> \o Head(q) \o CRLF \o encode(Held(Head(q))) \o EntryBytes(Tail(q))
Encoded == call.op = "encode"

\* C22: the encoding of a Map is '%', the number of its keys, "\r\n" and
\* then, for each key in ascending order, the key as a SimpleString followed
\* by the encoding of the value inserted last under that key, whatever the
\* order of the insertions: it is a function of the content alone.
C22_DeterministicMapEncoding ==
    Encoded =>
        call.res.v = <<"%">> \o fmt_usize(Cardinality(DOMAIN ver)) \o CRLF
                     \o EntryBytes(Ascending(DOMAIN ver))
\* a Map of three keys has been encoded, b having been inserted twice
C22_Witness ==
    /\ Encoded
    /\ DOMAIN ver = { <<"b">>, <<"a">>, <<"B">> }
    /\ Payload(call.arg)[1][1] = <<"B">>
    /\ Payload(call.arg)[3][1] = <<"b">>
    /\ Len(ver[<<"b">>]) = 2

-----------------------------------------------------------------------------
(* Claims about the totality of the decoder, checked under CodecSpec       *)

\* C23: RespFrame::decode returns a frame, NotComplete or another RespError
\* on every buffer; it never aborts on a slice or an index out of range.
C23_DecodeTotal ==
    DecodeCalled => call.res.tag \in {"Ok", "Err"}

EmptyAggregates == { RespArray(<<>>), RespSet(<<>>), RespMap(<<>>) }
\* f is an empty aggregate, or an aggregate whose last child is one
EndsInEmptyAggregate(f) ==
    IF f \in EmptyAggregates THEN TRUE
    ELSE IF Variant(f) \in {"Array", "Set"}
    THEN Payload(f)[Len(Payload(f))] \in EmptyAggregates
    ELSE IF Variant(f) = "Map"
    THEN Payload(f)[Len(Payload(f))][2] \in EmptyAggregates
    ELSE FALSE

\* C24: RespFrame::decode on a buffer that holds exactly the encoding of an
\* empty Array, Set or Map, or of an aggregate whose last child is an empty
\* Array, Set or Map, returns that frame and leaves the buffer empty.
C24_EmptyAggregatesDecode ==
    (DecodeCalled /\ EndsInEmptyAggregate(frame) /\ call.pre = Input) =>
        (ReturnedFrame(frame) /\ buf = <<>>)

ExpectLengthCalled == call.op = "expect_length"

\* C25: RespFrame::expect_length on a buffer that starts with the encoding
\* of a frame returns the length of that encoding, whatever follows it, and
\* a decode of such a buffer that succeeds takes exactly that many bytes off
\* the buffer.
C25_ExpectLengthAgrees ==
    /\ (ExpectLengthCalled /\ StartsWith(call.pre, Input)) =>
           (call.res = Ok(Len(Input)) /\ buf = call.pre)
    /\ (DecodeCalled /\ StartsWith(call.pre, Input) /\ call.res.tag = "Ok") =>
           buf = Drop(call.pre, Len(Input))

-----------------------------------------------------------------------------
(* Claims about waiting for bytes, checked under FaultSpec                 *)

\* b starts with the header of an Array or a Set of 1 to 9 elements and a
\* first element whose first byte is the first byte of no variant: b is the
\* prefix of no encoding, whatever bytes are appended to it
Hopeless(b) ==
    IF Len(b) < 5 THEN FALSE
    ELSE /\ b[1] \in {"*", "~"}
         /\ b[2] \in {"1", "2", "3", "4", "5", "6", "7", "8", "9"}
         /\ b[3] = CR /\ b[4] = LF
         /\ b[5] \notin Prefixes

\* C26: a handler that waits for bytes from its socket (decode has returned
\* NotComplete on its buffer) holds a buffer that further bytes can complete
\* to a frame: decode does not return NotComplete on an aggregate whose first
\* element starts with a byte of no variant.
C26_NotCompleteIsCompletable ==
    \A c \in Conns : pc[c] = "read" => ~Hopeless(rbuf[c])

-----------------------------------------------------------------------------
(* The server with clients that send well-formed commands only, and socket *)
(* reads that end anywhere inside the last command written                 *)

PipeRequests ==
    { GetRequest(<<"g", "e", "t">>, PlainKey),
      SetRequest(<<"s", "e", "t">>, PlainKey, BulkString(<<"a">>)) }
\* how many bytes of the last command a partial read returns: its header, or
\* its header and the first five bytes of its first bulk string
PartLens == { 4, 9 }

\* framed.next(): a read returns the bytes on the socket up to a point k
\* bytes into the command written last
SocketReadPart(c) ==
    /\ pc[c] = "read"
    /\ \E r \in PipeRequests, k \in PartLens :
         LET e == encode(r)
             n == Len(wire[c]) - Len(e) + k
         IN  /\ Len(wire[c]) >= Len(e)
             /\ Drop(wire[c], Len(wire[c]) - Len(e)) = e
             /\ rbuf' = [rbuf EXCEPT ![c] = @ \o Slice(wire[c], 0, n)]
             /\ wire' = [wire EXCEPT ![c] = Drop(@, n)]
    /\ pc' = [pc EXCEPT ![c] = "decode"]
    /\ UNCHANGED <<codecVars, map, hmap, eof, cur, out, log, sent, ver>>

PipeNext == ServerNext(PipeRequests) \/ \E c \in Conns : SocketReadPart(c)
PipeSpec == Init /\ [][PipeNext]_vars

\* every frame the handler of c has decoded has been answered
AllAnswered(c) == \A i \in 1..Len(log[c]) : log[c][i].st = "answered"

\* C27: on a connection whose client sends well-formed commands and keeps
\* its socket open the handler never ends, and when it waits for the socket
\* and no bytes are on their way, every command sent has been taken off the
\* buffer, executed and answered, however the reads cut the bytes.
C27_RequestLiveness ==
    \A c \in Conns :
        ~eof[c] =>
            /\ pc[c] \notin {"failed", "panicked"}
            /\ (pc[c] = "read" /\ wire[c] = <<>>) => (rbuf[c] = <<>> /\ AllAnswered(c))

\* b is the beginning of a command, not all of it
PartialCommand(b) == \E r \in PipeRequests : IsProperPrefix(b, encode(r))

\* C28: when the reads deliver whole commands back to back, followed or not
\* by part of another one, the handler decodes exactly the commands sent,
\* answers them in that order, one response each, and then waits for the
\* socket with the bytes of the partial command still in its buffer.
C28_Pipelining ==
    \A c \in Conns :
        ~eof[c] =>
            /\ \A i \in 1..Len(log[c]) : log[c][i].req \in PipeRequests
            /\ out[c] = Answers(log[c])
            /\ \A i \in 1..(Len(log[c]) - 1) : log[c][i].st = "answered"
            /\ pc[c] \notin {"failed", "panicked"}
            /\ pc[c] = "read" => (rbuf[c] = <<>> \/ PartialCommand(rbuf[c]))

-----------------------------------------------------------------------------
(* The hash commands step by step.  Two handlers execute HSET and HGETALL  *)
(* on one key; a step is what a task does while it holds a lock of a       *)
(* DashMap.  Backend::hset holds the RefMut of hmap.entry(key), a write    *)
(* lock on the key's shard of the outer map, until it returns;             *)
(* HGetAll::execute holds the Ref of hmap.get(key), a read lock on that    *)
(* shard, while it iterates over the inner map, whose shards it locks one  *)
(* after the other.  ver is the sequence of the contents the hash has had. *)

\* total number of commands the handlers execute
MaxOps == 4
ConcFields == { Hello, Goodbye }
ConcValues == { World, Lin }

\* the fields and values of the hash of HashKey
Content(h) == IF HashKey \in DOMAIN h THEN h[HashKey] ELSE DashMap_new

ConcInit ==
    /\ CodecIdle
    /\ map = DashMap_new /\ hmap = DashMap_new
    /\ wire = <<>> /\ eof = <<>> /\ rbuf = <<>> /\ out = <<>>
    /\ pc = [c \in Conns |-> "idle"]
    /\ cur = [c \in Conns |-> <<>>]
    /\ log = [c \in Conns |-> <<>>]
    /\ sent = 0
    /\ ver = << DashMap_new >>

\* the task holds a Ref (a RefMut) of the outer map's shard
HoldsRef(c) == pc[c] = "iter"
HoldsRefMut(c) == pc[c] = "insert"

\* the mutation of the shard's lock that lets a writer in at any time
RwLock_write_unguarded(c) == TRUE
\* RwLock::write, taken by DashMap::entry: no other task holds the shard
RwLock_write(c) == \A d \in Conns \ {c} : ~HoldsRef(d) /\ ~HoldsRefMut(d)
\* RwLock::read, taken by DashMap::get: no other task holds the shard for writing
RwLock_read(c) == \A d \in Conns \ {c} : ~HoldsRefMut(d)

\* the mutation of Entry::or_default that always stores a new inner map
or_default_fresh(h, key) == (key :> DashMap_new) @@ h
\* Entry::or_default: the inner map of the key, a new one if it has none
or_default(h, key) == IF key \in DOMAIN h THEN h ELSE (key :> DashMap_new) @@ h

\* Backend::hset, first line: self.hmap.entry(key).or_default()
HSetEntry(c, field, value) ==
    /\ pc[c] = "idle"
    /\ sent < MaxOps
    /\ RwLock_write(c)
    /\ hmap' = or_default(hmap, HashKey)
    /\ ver' = Append(ver, Content(hmap'))
    /\ cur' = [cur EXCEPT ![c] = <<field, value>>]
    /\ pc' = [pc EXCEPT ![c] = "insert"]
    /\ sent' = sent + 1
    /\ UNCHANGED <<codecVars, map, wire, eof, rbuf, out, log>>

\* Backend::hset, second line: hmap.insert(field, value); the RefMut is
\* dropped and HSet::execute returns RESP_OK
HSetInsert(c) ==
    /\ pc[c] = "insert"
    /\ hmap' = (HashKey :> ((cur[c][1] :> cur[c][2]) @@ hmap[HashKey])) @@ hmap
    /\ ver' = Append(ver, Content(hmap'))
    /\ log' = [log EXCEPT ![c] = Append(@, <<"HSet", cur[c][1], cur[c][2], RESP_OK>>)]
    /\ cur' = [cur EXCEPT ![c] = <<>>]
    /\ pc' = [pc EXCEPT ![c] = "idle"]
    /\ UNCHANGED <<codecVars, map, wire, eof, rbuf, out, sent>>

\* HGetAll::execute: backend.hmap.get(&self.key); None is answered at once
\* with the empty Array, Some starts the iteration.  The task keeps the
\* pairs it has pushed, the fields whose shards it has yet to visit, and the
\* number of contents the hash had had when it began.
HGetAllGet(c) ==
    /\ pc[c] = "idle"
    /\ sent < MaxOps
    /\ RwLock_read(c)
    /\ sent' = sent + 1
    /\ IF HashKey \in DOMAIN hmap
       THEN /\ cur' = [cur EXCEPT ![c] = << <<>>, ConcFields, Len(ver) >>]
            /\ pc' = [pc EXCEPT ![c] = "iter"]
            /\ UNCHANGED log
       ELSE /\ log' = [log EXCEPT ![c] = Append(@, <<"HGetAll", RespArray(<<>>), Len(ver), Len(ver)>>)]
            /\ UNCHANGED <<cur, pc>>
    /\ UNCHANGED <<codecVars, map, hmap, wire, eof, rbuf, out, ver>>

\* for v in hmap.iter(): the iterator locks the next shard of the inner map
\* and yields what it holds
HGetAllVisit(c) ==
    /\ pc[c] = "iter"
    /\ \E field \in cur[c][2] :
         cur' = [cur EXCEPT ![c] =
                   << IF field \in DOMAIN hmap[HashKey]
                      THEN Append(cur[c][1], <<field, hmap[HashKey][field]>>)
                      ELSE cur[c][1],
                      cur[c][2] \ {field}, cur[c][3] >>]
    /\ UNCHANGED <<codecVars, map, hmap, wire, eof, rbuf, pc, out, log, sent, ver>>

\* the pairs flattened into the Array
RECURSIVE flat_map(_)
flat_map(data) ==
    IF data = <<>> THEN <<>>
    ELSE <<BulkString(Head(data)[1]), Head(data)[2]>> \o flat_map(Tail(data))

\* the iteration is over: the Array is built, the Ref is dropped
HGetAllCollect(c) ==
    /\ pc[c] = "iter"
    /\ cur[c][2] = {}
    /\ log' = [log EXCEPT ![c] =
                 Append(@, <<"HGetAll", RespArray(flat_map(cur[c][1])), cur[c][3], Len(ver)>>)]
    /\ cur' = [cur EXCEPT ![c] = <<>>]
    /\ pc' = [pc EXCEPT ![c] = "idle"]
    /\ UNCHANGED <<codecVars, map, hmap, wire, eof, rbuf, out, sent, ver>>

ConcNext ==
    \E c \in Conns :
        \/ \E field \in ConcFields, value \in ConcValues : HSetEntry(c, field, value)
        \/ HSetInsert(c)
        \/ HGetAllGet(c)
        \/ HGetAllVisit(c)
        \/ HGetAllCollect(c)

ConcSpec == ConcInit /\ [][ConcNext]_vars

\* the commands a handler has completed
Completed == { <<c, i>> : c \in Conns, i \in 1..MaxOps }
IsCompleted(ci) == ci[2] <= Len(log[ci[1]])
CompletedAt(ci) == log[ci[1]][ci[2]]
\* the Array xs holds exactly the fields of the content v, each once and
\* followed by its value
HoldsContent(xs, v) ==
    LET n == Len(xs) \div 2
    IN  /\ Len(xs) = 2 * Cardinality(DOMAIN v)
        /\ \A a \in 1..n :
             IF Payload(xs[2 * a - 1]) \in DOMAIN v
             THEN v[Payload(xs[2 * a - 1])] = xs[2 * a]
             ELSE FALSE
        /\ \A a, b \in 1..n : Payload(xs[2 * a - 1]) = Payload(xs[2 * b - 1]) => a = b

\* C29: the Array a HGETALL returns holds the content the hash had at one
\* instant between the start and the end of the HGETALL, whatever HSETs the
\* other handler executes meanwhile: each field of that content once,
\* followed by the value the field had at that instant.
C29_HGetAllSnapshot ==
    \A ci \in Completed :
        IF IsCompleted(ci)
        THEN IF CompletedAt(ci)[1] = "HGetAll"
             THEN \E j \in CompletedAt(ci)[3]..CompletedAt(ci)[4] :
                      HoldsContent(Payload(CompletedAt(ci)[2]), ver[j])
             ELSE TRUE
        ELSE TRUE
\* a HGETALL has returned both fields, stored by two HSETs of the other
\* handler, which has begun a third
C29_Witness ==
    \E c, d \in Conns :
        /\ c # d
        /\ Len(log[c]) = 1 /\ log[c][1][1] = "HGetAll" /\ Len(Payload(log[c][1][2])) = 4
        /\ Len(log[d]) = 2
        /\ pc[d] = "insert"

\* C30: a field that a completed HSET has stored is in the hash, with the
\* value of the HSET or with that of another HSET of the same field; the
\* fields of two HSETs that run side by side on a key without a hash are
\* both there once both have returned.
C30_NoLostUpdate ==
    \A ci \in Completed :
        IF IsCompleted(ci)
        THEN IF CompletedAt(ci)[1] = "HSet"
             THEN IF CompletedAt(ci)[2] \in DOMAIN Content(hmap)
                  THEN Content(hmap)[CompletedAt(ci)[2]] \in ConcValues
                  ELSE FALSE
             ELSE TRUE
        ELSE TRUE
\* each handler has completed one HSET, on different fields, the key having
\* had no hash before, and the hash holds both
C30_Witness ==
    /\ \A c \in Conns : Len(log[c]) = 1 /\ pc[c] = "idle"
    /\ log["c1"][1] = <<"HSet", Hello, World, RESP_OK>>
    /\ log["c2"][1] = <<"HSet", Goodbye, Lin, RESP_OK>>
    /\ Len(ver) = 5
    /\ Content(hmap) = (Hello :> World) @@ (Goodbye :> Lin)

-----------------------------------------------------------------------------
(* The store harness: a test program that owns one Backend and executes    *)
(* every command on two keys, each of which can hold a flat value and a    *)
(* hash at once.  It builds the commands as struct literals, and from      *)
(* frames whose keys, fields and values are of several variants: a command *)
(* that try_from returned is executed, as request_handler does.            *)

StoreKeys == { HashKey, PlainKey }
StoreFields == { <<"h", "e", "l", "l", "o">>, <<"g", "o", "o", "d", "b", "y", "e">> }

\* the struct literals store the value world
StoreCommands ==
    { Get(k) : k \in StoreKeys }
    \cup { Set(k, World) : k \in StoreKeys }
    \cup { HGet(k, f) : k \in StoreKeys, f \in StoreFields }
    \cup { HSet(k, f, World) : k \in StoreKeys, f \in StoreFields }
    \cup { HGetAll(k, s) : k \in StoreKeys, s \in BOOLEAN }

\* the arguments of the frames: a key, a field and a value are a BulkString
\* or a frame of another variant
KeyFrames == { BulkString(PlainKey), Integer(1) }
FieldFrames == { BulkString(<<"h", "e", "l", "l", "o">>), Integer(1) }
ValueFrames == { World, Integer(1), RespArray(<<RespNull>>) }

\* the five commands with the right number of arguments
TypedFrames ==
    { RespArray(<<BulkString(<<"g", "e", "t">>), k>>) : k \in KeyFrames }
    \cup { RespArray(<<BulkString(<<"h", "g", "e", "t", "a", "l", "l">>), k>>) : k \in KeyFrames }
    \cup { RespArray(<<BulkString(<<"s", "e", "t">>), k, v>>) : k \in KeyFrames, v \in ValueFrames }
    \cup { RespArray(<<BulkString(<<"h", "g", "e", "t">>), k, f>>) : k \in KeyFrames, f \in FieldFrames }
    \cup { RespArray(<<BulkString(<<"h", "s", "e", "t">>), k, f, v>>) :
              k \in KeyFrames, f \in FieldFrames, v \in ValueFrames }

\* Command::try_from has returned a command
Parsed == IF call.op = "try_from" THEN call.res.tag = "Ok" ELSE FALSE

StoreNext ==
    \/ \E cmd \in StoreCommands : Execute(cmd)
    \/ \E f \in TypedFrames : Parse(f)
    \/ IF Parsed THEN Execute(call.res.v) ELSE FALSE

StoreSpec == ExecInit /\ [][StoreNext]_vars

\* m and n hold the same entries except, possibly, the entry of k
SameExcept(m, n, k) ==
    /\ DOMAIN m \ {k} = DOMAIN n \ {k}
    /\ \A j \in DOMAIN m \ {k} : m[j] = n[j]

\* C31: GET, HGET and HGETALL leave the flat map and the hash map as they
\* were, so a read of an absent key does not create it; SET k v changes only
\* the flat entry of k and HSET k f v only field f of the hash of k; the two
\* maps are separate namespaces: SET k leaves the answers of HGET k and
\* HGETALL k as they were, and HSET k the answer of GET k.
C31_StoreFrameConditions ==
    /\ (Executing("Get") \/ Executing("HGet") \/ Executing("HGetAll")) =>
           /\ map = MapBefore
           /\ hmap = HashBefore
    /\ Executing("Set") =>
           LET k == call.arg[2]
           IN  /\ SameExcept(map, MapBefore, k)
               /\ k \in DOMAIN map
               /\ hmap = HashBefore
               /\ \A f \in StoreFields : HGet_execute(hmap, k, f) = HGet_execute(HashBefore, k, f)
               /\ \A s \in BOOLEAN : HGetAll_execute(hmap, k, s) = HGetAll_execute(HashBefore, k, s)
    /\ Executing("HSet") =>
           LET k == call.arg[2]
               f == call.arg[3]
           IN  /\ SameExcept(hmap, HashBefore, k)
               /\ k \in DOMAIN hmap
               /\ SameExcept(hmap[k], IF k \in DOMAIN HashBefore THEN HashBefore[k] ELSE DashMap_new, f)
               /\ f \in DOMAIN hmap[k]
               /\ map = MapBefore
               /\ Get_execute(map, k) = Get_execute(MapBefore, k)
\* a SET on key map has run while that key held a hash and the other key a
\* flat value
C31_Witness ==
    /\ Executing("Set")
    /\ call.arg[2] = HashKey
    /\ HashKey \in DOMAIN HashBefore
    /\ PlainKey \in DOMAIN MapBefore
    /\ HashKey \in DOMAIN map
\* an HGET and an HGETALL of a key without a hash have left it without one
C31_AbsentKeyRead ==
    /\ Executing("HGet") \/ Executing("HGetAll")
    /\ call.arg[2] \notin DOMAIN HashBefore
    /\ call.arg[2] \notin DOMAIN hmap
    /\ call.arg[2] \in DOMAIN map

-----------------------------------------------------------------------------
(* Requests that fail command parsing, sent to the server between          *)
(* requests that store                                                     *)

Name_set == <<"s", "e", "t">>
Name_hset == <<"h", "s", "e", "t">>
Bulk_a == BulkString(<<"a">>)
Bulk_b == BulkString(<<"b">>)

\* a SET and an HSET that parse, and one request of each kind that does not:
\* an unknown name, a SET with one argument too many, an Array whose first
\* element is an Integer, a SET whose key is an Integer, an HSET whose field
\* is an Integer
RejectRequests ==
    { SetRequest(Name_set, <<"k">>, Bulk_a),
      RespArray(<<BulkString(Name_hset), BulkString(<<"k">>), BulkString(<<"f">>), Bulk_a>>),
      RespArray(<<BulkString(<<"U", "N", "K", "N", "O", "W", "N">>)>>),
      RespArray(<<BulkString(Name_set), BulkString(<<"k">>), Bulk_b, Bulk_b>>),
      RespArray(<<Integer(1), BulkString(<<"k">>)>>),
      RespArray(<<BulkString(Name_set), Integer(1), Bulk_b>>),
      RespArray(<<BulkString(Name_hset), BulkString(<<"k">>), Integer(1), Bulk_b>>) }

RejectNext == ServerNext(RejectRequests)

RejectSpec == Init /\ [][RejectNext]_vars

\* the Array xs is no well-formed command: its first element is no
\* BulkString, or names no command, or the number of its arguments is not
\* the command's, or a key or field among them is no BulkString
IllFormed(xs) ==
    IF xs = <<>> THEN TRUE
    ELSE IF Variant(xs[1]) # "BulkString" THEN TRUE
    ELSE IF Payload(xs[1]) \notin CommandNames THEN TRUE
    ELSE IF Len(xs) # 1 + ArgCount(Payload(xs[1])) THEN TRUE
    ELSE \E i \in 1..KeyCount(Payload(xs[1])) : Variant(xs[1 + i]) # "BulkString"

\* connection c holds an ill-formed request that request_handler is about
\* to take
HandlesIllFormed(c) ==
    IF pc[c] = "handle"
    THEN IF Variant(cur[c]) = "Array" THEN IllFormed(Payload(cur[c])) ELSE TRUE
    ELSE FALSE

\* C32: the step in which request_handler takes a received frame that is no
\* well-formed command (unknown name, wrong argument count, first element,
\* key or field that is no BulkString) leaves the flat map and the hash map
\* exactly as they were.
C32_FailedCommandsKeepStore ==
    [][\A c \in Conns :
          (HandlesIllFormed(c) /\ pc'[c] # "handle") => (map' = map /\ hmap' = hmap)]_vars
\* a SET k b with one argument too many has been rejected on one connection
\* after the other connection stored a under k, and k still holds a
C32_Witness ==
    \E c \in Conns :
        /\ log[c] # <<>>
        /\ Last(log[c]).st = "rejected"
        /\ Last(log[c]).req = RespArray(<<BulkString(Name_set), BulkString(<<"k">>), Bulk_b, Bulk_b>>)
        /\ <<"k">> \in DOMAIN map
        /\ map[<<"k">>] = Bulk_a

\* every entry of the flat map m and every field of every hash of h is
\* still held by m2 and h2
KeepsEntries(m, h, m2, h2) ==
    /\ DOMAIN m \subseteq DOMAIN m2
    /\ DOMAIN h \subseteq DOMAIN h2
    /\ \A k \in DOMAIN h : IF k \in DOMAIN h2 THEN DOMAIN h[k] \subseteq DOMAIN h2[k] ELSE FALSE

\* C33: no step removes an entry: a key that has a flat value has one after
\* every GET, SET, HGET, HSET and HGETALL, and a field that a hash holds is
\* held by it after every one of them.
C33_NoDeletion ==
    [][KeepsEntries(map, hmap, map', hmap')]_vars
\* an HSET has overwritten one of the two fields of a hash whose key also
\* holds a flat value, and the hash holds both fields
C33_Witness ==
    /\ Executing("HSet")
    /\ call.arg[2] \in DOMAIN HashBefore
    /\ DOMAIN HashBefore[call.arg[2]] = StoreFields
    /\ HashBefore[call.arg[2]][call.arg[3]] # call.arg[4]
    /\ DOMAIN hmap[call.arg[2]] = StoreFields
    /\ hmap[call.arg[2]][call.arg[3]] = call.arg[4]
    /\ call.arg[2] \in DOMAIN map

\* the Array of call.arg has as many elements as its command takes
RightCount ==
    IF Parsing
    THEN IF Payload(Payload(call.arg)[1]) \in CommandNames
         THEN Len(Payload(call.arg)) = 1 + ArgCount(Payload(Payload(call.arg)[1]))
         ELSE FALSE
    ELSE FALSE

\* C34: of a command frame with the right number of arguments, the key, and
\* for HGET and HSET the field, must be BulkStrings: if one is not, parsing
\* fails with InvalidArgument; if they are, parsing returns the command, and
\* the value of a SET or HSET, of whatever variant, is the frame given.  The
\* value a SET or HSET stores is the value the store holds afterwards, and a
\* GET or HGET of a held entry returns the frame held.
C34_ArgumentTyping ==
    /\ RightCount =>
           LET xs == Payload(call.arg)
               name == Payload(xs[1])
           IN  IF \E i \in 1..KeyCount(name) : Variant(xs[1 + i]) # "BulkString"
               THEN call.res = Err(InvalidArgument)
               ELSE IF call.res.tag # "Ok" THEN FALSE
               ELSE /\ call.res.v[1] = VariantOf(name)
                    /\ call.res.v[2] = Payload(xs[2])
                    /\ name \in { <<"s", "e", "t">>, <<"h", "s", "e", "t">> } =>
                           call.res.v[Len(call.res.v)] = xs[Len(xs)]
    /\ Executing("Set") =>
           /\ map[call.arg[2]] = call.arg[3]
           /\ Get_execute(map, call.arg[2]) = call.arg[3]
    /\ Executing("HSet") =>
           /\ hmap[call.arg[2]][call.arg[3]] = call.arg[4]
           /\ HGet_execute(hmap, call.arg[2], call.arg[3]) = call.arg[4]
    /\ (Executing("Get") /\ call.arg[2] \in DOMAIN MapBefore) =>
           call.res = Ok(MapBefore[call.arg[2]])
    /\ Executing("HGet") =>
           IF call.arg[2] \in DOMAIN HashBefore
           THEN call.arg[3] \in DOMAIN HashBefore[call.arg[2]] =>
                    call.res = Ok(HashBefore[call.arg[2]][call.arg[3]])
           ELSE TRUE
\* a SET whose key is an Integer has failed with InvalidArgument
C34_Witness ==
    /\ RightCount
    /\ call.arg = RespArray(<<BulkString(<<"s", "e", "t">>), Integer(1), Integer(1)>>)
    /\ call.res = Err(InvalidArgument)
\* a GET has returned the Array, and an HGET the Integer, that a parsed SET
\* and a parsed HSET stored
C34_ValueReturned ==
    \/ /\ Executing("Get")
       /\ call.res = Ok(RespArray(<<RespNull>>))
    \/ /\ Executing("HGet")
       /\ call.res = Ok(Integer(1))

-----------------------------------------------------------------------------
(* The codec harness fed with wire forms that no encoder produces          *)

Hello5 == <<"h", "e", "l", "l", "o">>
\* the two bytes after the payload of a bulk string
Terminators == { <<CR, LF>>, <<"x", "y">>, <<LF, CR>>, <<CR, "x">>, <<"x", LF>> }
\* "$<n>\r\n", the n bytes of p, the two bytes t
BulkWire(p, t) == <<"$">> \o fmt_usize(Len(p)) \o <<CR, LF>> \o p \o t

\* ":1\r\n" and ":2\r\n"
One == <<":", "1", CR, LF>>
Two == <<":", "2", CR, LF>>
\* "+<k>\r\n"
KeyWire(k) == <<"+">> \o k \o <<CR, LF>>

\* an Array, a Set and a Map of two children, with equal and with different
\* elements and keys
AggregateWires ==
    { <<"*", "2", CR, LF>> \o x \o y : x \in { One }, y \in { One, Two } }
    \cup { <<"~", "2", CR, LF>> \o x \o y : x \in { One }, y \in { One, Two } }
    \cup { <<"%", "2", CR, LF>> \o KeyWire(<<"a">>) \o One \o KeyWire(k) \o Two : k \in { <<"a">>, <<"b">> } }

\* bulk strings with each terminator, alone and as the element of an Array,
\* and the aggregates
WireInputs ==
    { BulkWire(p, t) : p \in { <<>>, Hello5 }, t \in Terminators }
    \cup { <<"*", "1", CR, LF>> \o BulkWire(Hello5, t) : t \in Terminators }
    \cup AggregateWires

WireInit ==
    /\ frame = <<>>
    /\ pending \in WireInputs
    /\ buf = <<>>
    /\ call = NoCall
    /\ ServerIdle

WireSpec == WireInit /\ [][CodecNext]_vars

\* b is the header of a bulk string, the payload it declares, and two bytes
\* that are not CR LF
BadTerminator(b) ==
    \E p \in { <<>>, Hello5 } : \E t \in Terminators \ { <<CR, LF>> } : b = BulkWire(p, t)

\* C35: when the declared payload bytes of a bulk string are in the buffer
\* and the two bytes after them are not CR LF, decode returns an error and
\* leaves the buffer as it was.
C35_MandatoryTerminator ==
    (DecodeCalled /\ BadTerminator(call.pre)) =>
        /\ call.res.tag = "Err"
        /\ buf = call.pre

\* decode has returned an Array, a Set or a Map
ReturnedAggregate ==
    IF DecodeCalled
    THEN IF call.res.tag = "Ok" THEN Variant(call.res.v) \in { "Array", "Set", "Map" } ELSE FALSE
    ELSE FALSE
\* the count that the header of the decoded buffer declares
DeclaredCount == parse_length(call.pre, <<Head(call.pre)>>).v[2]

\* C36: a decoded Array, Set or Map has as many elements (a Map: entries) as
\* the header of its wire form declares, a Map whose wire form repeats a key
\* included.
C36_CountsMatchHeaders ==
    ReturnedAggregate => Len(Payload(call.res.v)) = DeclaredCount

-----------------------------------------------------------------------------
(* The end of the stream, checked under FaultSpec                          *)

\* the handler of c waits on a socket that its client has closed and that
\* holds no more bytes: framed.next() reaches the end of the stream
SeesEof(c) == pc[c] = "read" /\ eof[c] /\ wire[c] = <<>>

\* C37: the step in which the handler of a connection finds that the client
\* has closed the socket ends the handler with success; it writes no
\* response and changes nothing in the store.
C37_EofEndsCleanly ==
    [][\A c \in Conns :
          (SeesEof(c) /\ pc'[c] # "read") =>
              /\ pc'[c] = "closed"
              /\ out'[c] = out[c]
              /\ map' = map
              /\ hmap' = hmap]_vars

====
